---- MODULE Spec2Model ----
(***************************************************************************)
(* DistroAV NDI video converter: configuration resolver                   *)
(* (ndi_converter_update), frame-rate gate                                 *)
(* (ndi_converter_should_send_frame), resampler                            *)
(* (ndi_converter_update_scaler, ndi_converter_scale_video) and the        *)
(* filter's frame callback with its crop rectangle (ndi_filter_raw_video). *)
(*                                                                         *)
(* Number representation.  TLC integers are 32 bits wide.                  *)
(*  - A uint32_t field holds its 32-bit pattern read as a two's-complement *)
(*    integer: a value v < 2^31 is v, a value v >= 2^31 is v - 2^32.  The  *)
(*    cast (uint32_t)obs_data_get_int(...) keeps the low 32 bits, so a     *)
(*    setting in the int32 range keeps its pattern; unsigned comparisons   *)
(*    of the source are made with U32Lt.                                   *)
(*  - A uint64_t nanosecond timestamp t is the record [s, ns] with         *)
(*    t = s * 10^9 + ns and 0 <= ns < 10^9.                                *)
(***************************************************************************)
EXTENDS Integers, Sequences, FiniteSets, TLC

VARIABLES converter, last_op, gate_out, sent, hist, applied, scale_out,
          heap, preset_out, filter, pc, ndiLib

vars == <<converter, last_op, gate_out, sent, hist, applied, scale_out,
          heap, preset_out, filter, pc, ndiLib>>

\* the sender of the filter, its two mutexes, the threads of the host that
\* call into the filter, and the senders of the NDI library
sender_vars == <<filter, pc, ndiLib>>

(***************************************************************************)
(* Bounds of the model.                                                    *)
(***************************************************************************)
\* Spec: largest nanosecond value of a frame timestamp
MaxTs == 3
\* Spec: largest number of paced gate calls followed after one pacing reset
MaxFrames == 3
\* SpecPacing: largest nanosecond value of a frame timestamp
PaceMaxTs == 10
\* SpecPacing: largest number of paced gate calls followed after one reset
PaceMaxFrames == 5
\* SpecPresets: the mode values looked up are -MaxMode .. MaxMode
MaxMode == 64
\* SpecSend: largest nanosecond value of a frame timestamp
SendMaxTs == 8
\* SpecSend: largest number of paced frames followed after one reset
SendMaxFrames == 3
\* SpecRace: largest nanosecond value of a frame timestamp
RaceMaxTs == 2
\* SpecRace: largest number of paced frames followed after one reset
RaceMaxFrames == 2
\* SpecSender: largest number of senders send_create makes
MaxSenders == 2
\* SpecSender: largest number of paced frames followed after one reset
SenderMaxFrames == 2

(***************************************************************************)
(* Program constants.                                                      *)
(***************************************************************************)
\* enum ndi_resolution_mode
NDI_RESOLUTION_AUTO == 0
NDI_RESOLUTION_720P == 1
NDI_RESOLUTION_1080P == 2
NDI_RESOLUTION_1440P == 3
NDI_RESOLUTION_4K == 4
NDI_RESOLUTION_CUSTOM == 5

\* enum ndi_framerate_mode
NDI_FRAMERATE_AUTO == 0
NDI_FRAMERATE_5 == 1
NDI_FRAMERATE_10 == 2
NDI_FRAMERATE_15 == 3
NDI_FRAMERATE_24 == 4
NDI_FRAMERATE_25 == 5
NDI_FRAMERATE_30 == 6
NDI_FRAMERATE_2997 == 7
NDI_FRAMERATE_50 == 8
NDI_FRAMERATE_60 == 9
NDI_FRAMERATE_5994 == 10
NDI_FRAMERATE_CUSTOM == 11

\* enum ndi_scale_type
NDI_SCALE_FAST_BILINEAR == 0
NDI_SCALE_BILINEAR == 1
NDI_SCALE_BICUBIC == 2

\* the literal 1000000000.0 of the interval computation
NsPerSec == 1000000000

(***************************************************************************)
(* Arithmetic helpers.                                                     *)
(***************************************************************************)
\* a < b on two uint32_t values held as 32-bit patterns
U32Lt(a, b) == IF (a < 0) = (b < 0) THEN a < b ELSE b < 0

\* a uint64_t nanosecond timestamp
Ts(s, ns) == [s |-> s, ns |-> ns]

\* the test `t > 0` on a uint64_t timestamp
TsPositive(t) == t.s > 0 \/ t.ns > 0

\* (int64_t)(a - b) for two uint64_t timestamps
TsDiff(a, b) == (a.s - b.s) * NsPerSec + (a.ns - b.ns)

\* a + d for a timestamp a and 0 <= d < 10^9 nanoseconds
TsAdd(a, d) ==
    IF a.ns + d >= NsPerSec THEN Ts(a.s + 1, a.ns + d - NsPerSec)
    ELSE Ts(a.s, a.ns + d)

\* the largest int32_t
I32Max == 2147483647

\* a + b on two uint32_t values held as 32-bit patterns, modulo 2^32
U32Add(a, b) ==
    CASE a >= 0 /\ b >= 0 /\ a > I32Max - b ->
            (a - I32Max - 1) + (b - I32Max - 1)
      [] a < 0 /\ b < 0 /\ a < (-I32Max - 1) - b ->
            (a + I32Max + 1) + (b + I32Max + 1)
      [] OTHER -> a + b

(***************************************************************************)
(* Single-precision arithmetic of the crop mapping (IEEE 754 binary32,     *)
(* round to nearest even, each operation rounded on its own).  A float is  *)
(* the record [m, e] of value m * 2^e with 2^23 <= m < 2^24, or m = 0.     *)
(***************************************************************************)
\* number of binary digits of n >= 0
RECURSIVE bit_length(_)
bit_length(n) == IF n = 0 THEN 0 ELSE 1 + bit_length(n \div 2)

\* the next `bits` quotient digits of r / d after the digits m, for r < d
RECURSIVE f32_div_digits(_, _, _, _)
f32_div_digits(r, d, m, bits) ==
    IF bits = 0 THEN [m |-> m, r |-> r]
    ELSE IF 2 * r >= d
         THEN f32_div_digits(2 * r - d, d, 2 * m + 1, bits - 1)
         ELSE f32_div_digits(2 * r, d, 2 * m, bits - 1)

\* round to nearest, ties to even: kept digits m, discarded part rem of a
\* unit of 2 * half
f32_round(m, rem, half) ==
    IF rem > half \/ (rem = half /\ m % 2 = 1) THEN m + 1 ELSE m

\* (float)a / (float)b for 1 <= a < 2^24 and 1 <= b < 2^24: both casts are
\* exact, the quotient is rounded to 24 digits
f32_div(a, b) ==
    LET la == bit_length(a)
        lb == bit_length(b)
        n0 == a * 2^(24 - la)
        d == b * 2^(24 - lb)
        low == n0 < d
        n == IF low THEN 2 * n0 ELSE n0
        q == f32_div_digits(n - d, d, 1, 23)
        m == f32_round(q.m, 2 * q.r, d)
        e == (la - lb) - (IF low THEN 1 ELSE 0) - 23
    IN  IF m = 2^24 THEN [m |-> 2^23, e |-> e + 1] ELSE [m |-> m, e |-> e]

\* the integer cast of (float)x * f for 0 <= x < 2^18 and a product below
\* 2^30: the cast of x is exact, the product x * f.m is held as
\* hi * 2^12 + lo and rounded to 24 digits, and the cast truncates.
f32_mul_trunc(x, f) ==
    LET h == f.m \div 4096
        l == f.m % 4096
        hi == x * h + (x * l) \div 4096
        lo == (x * l) % 4096
        s == bit_length(hi) - 12
        kept == CASE s <= 0 -> hi * 4096 + lo
                  [] s \in 1..12 -> hi * 2^(12 - s) + lo \div 2^s
                  [] s > 12 -> hi \div 2^(s - 12)
        rem == CASE s <= 0 -> 0
                 [] s \in 1..12 -> lo % 2^s
                 [] s > 12 -> (hi % 2^(s - 12)) * 4096 + lo
        r == IF s <= 0 THEN kept ELSE f32_round(kept, 2 * rem, 2^s)
        t == (IF s <= 0 THEN 0 ELSE s) + f.e
    IN  CASE x = 0 -> 0
          [] x \in 1 .. (2^18 - 1) /\ t \in 0 .. 6 -> r * 2^t
          [] x \in 1 .. (2^18 - 1) /\ t \in -30 .. -1 -> r \div 2^(-t)
          [] x \in 1 .. (2^18 - 1) /\ t < -30 -> 0

(***************************************************************************)
(* Preset tables.                                                          *)
(***************************************************************************)
\* mutant: the custom mode looked up as 1080p
preset_resolution_custom_as_1080p(mode) ==
    CASE mode = NDI_RESOLUTION_720P -> [width |-> 1280, height |-> 720]
      [] mode = NDI_RESOLUTION_1080P -> [width |-> 1920, height |-> 1080]
      [] mode = NDI_RESOLUTION_1440P -> [width |-> 2560, height |-> 1440]
      [] mode = NDI_RESOLUTION_4K -> [width |-> 3840, height |-> 2160]
      [] mode = NDI_RESOLUTION_CUSTOM -> [width |-> 1920, height |-> 1080]
      [] OTHER -> [width |-> 0, height |-> 0]

ndi_converter_get_preset_resolution(mode) ==
    CASE mode = NDI_RESOLUTION_720P -> [width |-> 1280, height |-> 720]
      [] mode = NDI_RESOLUTION_1080P -> [width |-> 1920, height |-> 1080]
      [] mode = NDI_RESOLUTION_1440P -> [width |-> 2560, height |-> 1440]
      [] mode = NDI_RESOLUTION_4K -> [width |-> 3840, height |-> 2160]
      [] OTHER -> [width |-> 0, height |-> 0]

\* mutant: the 29.97 fps entry with a denominator of 1000
preset_framerate_ntsc_den_1000(mode) ==
    CASE mode = NDI_FRAMERATE_5 -> [fps_num |-> 5, fps_den |-> 1]
      [] mode = NDI_FRAMERATE_10 -> [fps_num |-> 10, fps_den |-> 1]
      [] mode = NDI_FRAMERATE_15 -> [fps_num |-> 15, fps_den |-> 1]
      [] mode = NDI_FRAMERATE_24 -> [fps_num |-> 24, fps_den |-> 1]
      [] mode = NDI_FRAMERATE_25 -> [fps_num |-> 25, fps_den |-> 1]
      [] mode = NDI_FRAMERATE_30 -> [fps_num |-> 30, fps_den |-> 1]
      [] mode = NDI_FRAMERATE_2997 -> [fps_num |-> 30000, fps_den |-> 1000]
      [] mode = NDI_FRAMERATE_50 -> [fps_num |-> 50, fps_den |-> 1]
      [] mode = NDI_FRAMERATE_60 -> [fps_num |-> 60, fps_den |-> 1]
      [] mode = NDI_FRAMERATE_5994 -> [fps_num |-> 60000, fps_den |-> 1001]
      [] OTHER -> [fps_num |-> 0, fps_den |-> 0]

\* mutant: the 59.94 fps entry as 60/1
preset_framerate_5994_as_60(mode) ==
    CASE mode = NDI_FRAMERATE_5 -> [fps_num |-> 5, fps_den |-> 1]
      [] mode = NDI_FRAMERATE_10 -> [fps_num |-> 10, fps_den |-> 1]
      [] mode = NDI_FRAMERATE_15 -> [fps_num |-> 15, fps_den |-> 1]
      [] mode = NDI_FRAMERATE_24 -> [fps_num |-> 24, fps_den |-> 1]
      [] mode = NDI_FRAMERATE_25 -> [fps_num |-> 25, fps_den |-> 1]
      [] mode = NDI_FRAMERATE_30 -> [fps_num |-> 30, fps_den |-> 1]
      [] mode = NDI_FRAMERATE_2997 -> [fps_num |-> 30000, fps_den |-> 1001]
      [] mode = NDI_FRAMERATE_50 -> [fps_num |-> 50, fps_den |-> 1]
      [] mode = NDI_FRAMERATE_60 -> [fps_num |-> 60, fps_den |-> 1]
      [] mode = NDI_FRAMERATE_5994 -> [fps_num |-> 60, fps_den |-> 1]
      [] OTHER -> [fps_num |-> 0, fps_den |-> 0]

ndi_converter_get_preset_framerate(mode) ==
    CASE mode = NDI_FRAMERATE_5 -> [fps_num |-> 5, fps_den |-> 1]
      [] mode = NDI_FRAMERATE_10 -> [fps_num |-> 10, fps_den |-> 1]
      [] mode = NDI_FRAMERATE_15 -> [fps_num |-> 15, fps_den |-> 1]
      [] mode = NDI_FRAMERATE_24 -> [fps_num |-> 24, fps_den |-> 1]
      [] mode = NDI_FRAMERATE_25 -> [fps_num |-> 25, fps_den |-> 1]
      [] mode = NDI_FRAMERATE_30 -> [fps_num |-> 30, fps_den |-> 1]
      [] mode = NDI_FRAMERATE_2997 -> [fps_num |-> 30000, fps_den |-> 1001]
      [] mode = NDI_FRAMERATE_50 -> [fps_num |-> 50, fps_den |-> 1]
      [] mode = NDI_FRAMERATE_60 -> [fps_num |-> 60, fps_den |-> 1]
      [] mode = NDI_FRAMERATE_5994 -> [fps_num |-> 60000, fps_den |-> 1001]
      [] OTHER -> [fps_num |-> 0, fps_den |-> 0]

(***************************************************************************)
(* Resampler resources.  A video_scaler_t is known by the geometry it was  *)
(* created for; a buffer of bmalloc is known by the number of bytes asked  *)
(* for, so that two allocations of different sizes are different pointers. *)
(***************************************************************************)
\* enum video_format of the host: the zero value and two formats of frames
VIDEO_FORMAT_NONE == "VIDEO_FORMAT_NONE"
VIDEO_FORMAT_NV12 == "VIDEO_FORMAT_NV12"
VIDEO_FORMAT_BGRA == "VIDEO_FORMAT_BGRA"

\* converter->scaler == nullptr
NoScaler ==
    [live |-> FALSE, src_width |-> 0, src_height |-> 0,
     src_format |-> VIDEO_FORMAT_NONE, dst_width |-> 0, dst_height |-> 0]

\* converter->scaled_buffer == nullptr
NoBuffer == [bytes |-> 0]

(***************************************************************************)
(* ndi_converter_init: memset to 0, then the defaults.                     *)
(***************************************************************************)
ndi_converter_init ==
    [enable_custom_resolution |-> FALSE,
     resolution_mode |-> NDI_RESOLUTION_AUTO,
     custom_width |-> 1920,
     custom_height |-> 1080,
     target_width |-> 0,
     target_height |-> 0,
     scale_type |-> NDI_SCALE_BICUBIC,
     enable_crop |-> FALSE,
     crop_left |-> 0,
     crop_top |-> 0,
     crop_width |-> 0,
     crop_height |-> 0,
     enable_custom_framerate |-> FALSE,
     framerate_mode |-> NDI_FRAMERATE_AUTO,
     custom_fps_num |-> 30,
     custom_fps_den |-> 1,
     target_fps_num |-> 0,
     target_fps_den |-> 0,
     accumulator_ns |-> 0,
     target_frame_interval_ns |-> 0,
     last_frame_timestamp |-> Ts(0, 0),
     scaler |-> NoScaler,
     scaled_buffer |-> NoBuffer,
     scaled_buffer_size |-> 0,
     source_width |-> 0,
     source_height |-> 0,
     source_format |-> VIDEO_FORMAT_NONE]

(***************************************************************************)
(* Settings snapshots of the settings store (obs_data_t), one field per    *)
(* recognised key.                                                         *)
(***************************************************************************)
MakeSettings(res_on, res_mode, dim, fps_on, fps_mode, fps) ==
    [enable_custom_resolution |-> res_on,
     resolution_mode |-> res_mode,
     custom_width |-> dim[1],
     custom_height |-> dim[2],
     scale_type |-> NDI_SCALE_BICUBIC,
     enable_crop |-> FALSE,
     crop_left |-> 0,
     crop_top |-> 0,
     crop_width |-> 0,
     crop_height |-> 0,
     enable_custom_framerate |-> fps_on,
     framerate_mode |-> fps_mode,
     custom_fps_num |-> fps[1],
     custom_fps_den |-> fps[2]]

\* a snapshot with the crop keys set
MakeCropSettings(base, on, pos, extent) ==
    [base EXCEPT !.enable_crop = on,
                 !.crop_left = pos[1], !.crop_top = pos[2],
                 !.crop_width = extent[1], !.crop_height = extent[2]]

(***************************************************************************)
(* ndi_converter_update                                                    *)
(***************************************************************************)
\* (int64_t)((1000000000.0 * den) / num) for num > 0 and den > 0 (unsigned).
\* The double quotient truncates to floor(10^9 * den / num) for every
\* den < 2^53 / 10^9; the floor is computed without a product over 2^31.
\* A num of 2^31 or more (a negative pattern) exceeds 10^9 * den for den <= 2.
\* mutant: the quotient rounded to the nearest nanosecond, halves up
target_frame_interval_rounded(num, den) ==
    CASE num < 0 /\ den \in 1..2 -> 0
      [] num > 0 /\ den > 0 ->
            LET r == (den * (NsPerSec % num)) % num
            IN  den * (NsPerSec \div num) + (den * (NsPerSec % num)) \div num
                + (IF r >= num - r THEN 1 ELSE 0)

target_frame_interval(num, den) ==
    CASE num < 0 /\ den \in 1..2 -> 0
      [] num > 0 /\ den > 0 ->
            den * (NsPerSec \div num) + (den * (NsPerSec % num)) \div num

\* mutant: the clamp without its upper bound
clamp_u32_lower_only(v, lo, hi) ==
    IF U32Lt(v, lo) THEN lo ELSE v

\* the clamp of custom_width / custom_height
clamp_u32(v, lo, hi) ==
    LET a == IF U32Lt(v, lo) THEN lo ELSE v
    IN  IF U32Lt(hi, a) THEN hi ELSE a

\* mutant: the Custom mode is looked up in the preset table like the others
target_resolution_custom_as_preset(enable, mode, cw, ch) ==
    IF enable
    THEN ndi_converter_get_preset_resolution(mode)
    ELSE [width |-> 0, height |-> 0]

\* target resolution, lines 147-159
target_resolution(enable, mode, cw, ch) ==
    IF enable
    THEN IF mode = NDI_RESOLUTION_CUSTOM
         THEN [width |-> cw, height |-> ch]
         ELSE ndi_converter_get_preset_resolution(mode)
    ELSE [width |-> 0, height |-> 0]

\* mutant: disabling leaves the previous target rate and interval in place
target_framerate_stale_when_disabled(conv, enable, mode, cnum, cden) ==
    IF enable
    THEN LET t == IF mode = NDI_FRAMERATE_CUSTOM
                  THEN [fps_num |-> cnum, fps_den |-> cden]
                  ELSE ndi_converter_get_preset_framerate(mode)
         IN  [target_fps_num |-> t.fps_num,
              target_fps_den |-> t.fps_den,
              target_frame_interval_ns |->
                  IF U32Lt(0, t.fps_num) /\ U32Lt(0, t.fps_den)
                  THEN target_frame_interval(t.fps_num, t.fps_den)
                  ELSE 0,
              accumulator_ns |-> 0,
              last_frame_timestamp |-> Ts(0, 0)]
    ELSE [target_fps_num |-> conv.target_fps_num,
          target_fps_den |-> conv.target_fps_den,
          target_frame_interval_ns |-> conv.target_frame_interval_ns,
          accumulator_ns |-> conv.accumulator_ns,
          last_frame_timestamp |-> conv.last_frame_timestamp]

\* target frame rate and pacing state, lines 187-212
target_framerate(conv, enable, mode, cnum, cden) ==
    IF enable
    THEN LET t == IF mode = NDI_FRAMERATE_CUSTOM
                  THEN [fps_num |-> cnum, fps_den |-> cden]
                  ELSE ndi_converter_get_preset_framerate(mode)
         IN  [target_fps_num |-> t.fps_num,
              target_fps_den |-> t.fps_den,
              target_frame_interval_ns |->
                  IF U32Lt(0, t.fps_num) /\ U32Lt(0, t.fps_den)
                  THEN target_frame_interval(t.fps_num, t.fps_den)
                  ELSE 0,
              accumulator_ns |-> 0,
              last_frame_timestamp |-> Ts(0, 0)]
    ELSE [target_fps_num |-> 0,
          target_fps_den |-> 0,
          target_frame_interval_ns |-> 0,
          accumulator_ns |-> conv.accumulator_ns,
          last_frame_timestamp |-> conv.last_frame_timestamp]

ndi_converter_update(conv, settings) ==
    LET cw == clamp_u32(settings.custom_width, 128, 7680)
        ch == clamp_u32(settings.custom_height, 72, 4320)
        res == target_resolution(settings.enable_custom_resolution,
                                 settings.resolution_mode, cw, ch)
        cnum == IF U32Lt(settings.custom_fps_num, 1) THEN 1
                ELSE settings.custom_fps_num
        cden == IF U32Lt(settings.custom_fps_den, 1) THEN 1
                ELSE settings.custom_fps_den
        fr == target_framerate(conv, settings.enable_custom_framerate,
                               settings.framerate_mode, cnum, cden)
    IN  [enable_custom_resolution |-> settings.enable_custom_resolution,
         resolution_mode |-> settings.resolution_mode,
         custom_width |-> cw,
         custom_height |-> ch,
         target_width |-> res.width,
         target_height |-> res.height,
         scale_type |-> settings.scale_type,
         enable_crop |-> settings.enable_crop,
         crop_left |-> IF settings.crop_left < 0 THEN 0 ELSE settings.crop_left,
         crop_top |-> IF settings.crop_top < 0 THEN 0 ELSE settings.crop_top,
         crop_width |-> settings.crop_width,
         crop_height |-> settings.crop_height,
         enable_custom_framerate |-> settings.enable_custom_framerate,
         framerate_mode |-> settings.framerate_mode,
         custom_fps_num |-> cnum,
         custom_fps_den |-> cden,
         target_fps_num |-> fr.target_fps_num,
         target_fps_den |-> fr.target_fps_den,
         accumulator_ns |-> fr.accumulator_ns,
         target_frame_interval_ns |-> fr.target_frame_interval_ns,
         last_frame_timestamp |-> fr.last_frame_timestamp,
         scaler |-> conv.scaler,
         scaled_buffer |-> conv.scaled_buffer,
         scaled_buffer_size |-> conv.scaled_buffer_size,
         source_width |-> conv.source_width,
         source_height |-> conv.source_height,
         source_format |-> conv.source_format]

(***************************************************************************)
(* ndi_converter_should_send_frame                                         *)
(***************************************************************************)
\* mutant: `if` for `while`, at most one emission per call
drain_accumulator_once(acc, interval, count) ==
    IF acc >= interval
    THEN [accumulator_ns |-> acc - interval, count |-> count + 1]
    ELSE [accumulator_ns |-> acc, count |-> count]

\* mutant: the residual is dropped when a frame is emitted
drain_accumulator_drop_residual(acc, interval, count) ==
    IF acc >= interval
    THEN [accumulator_ns |-> 0, count |-> count + acc \div interval]
    ELSE [accumulator_ns |-> acc, count |-> count]

\* mutant: the loop runs while the accumulator exceeds the interval
RECURSIVE drain_accumulator_strict(_, _, _)
drain_accumulator_strict(acc, interval, count) ==
    IF acc > interval
    THEN drain_accumulator_strict(acc - interval, interval, count + 1)
    ELSE [accumulator_ns |-> acc, count |-> count]

\* the loop `while (accumulator_ns >= target_frame_interval_ns)`
RECURSIVE drain_accumulator(_, _, _)
drain_accumulator(acc, interval, count) ==
    IF acc >= interval
    THEN drain_accumulator(acc - interval, interval, count + 1)
    ELSE [accumulator_ns |-> acc, count |-> count]

\* the early return of line 345: no pacing
gate_bypass(conv) ==
    ~conv.enable_custom_framerate \/ conv.target_frame_interval_ns = 0

\* *frames_to_send and the return value of the early return
bypass_result == [should_send |-> TRUE, frames_to_send |-> 0]

\* mutant: no `last_frame_timestamp > 0` test, the first delta is the timestamp
gate_delta_no_sentinel(conv, frame_timestamp) ==
    TsDiff(frame_timestamp, conv.last_frame_timestamp)

\* elapsed time since the last frame, lines 349-352
gate_delta(conv, frame_timestamp) ==
    IF TsPositive(conv.last_frame_timestamp)
    THEN TsDiff(frame_timestamp, conv.last_frame_timestamp)
    ELSE 0

\* [conv: the converter afterwards, out: return value and *frames_to_send]
ndi_converter_should_send_frame(conv, frame_timestamp) ==
    IF gate_bypass(conv)
    THEN [conv |-> conv, out |-> bypass_result]
    ELSE LET d == drain_accumulator(
                      conv.accumulator_ns + gate_delta(conv, frame_timestamp),
                      conv.target_frame_interval_ns, 0)
         IN  [conv |-> [conv EXCEPT !.accumulator_ns = d.accumulator_ns,
                                    !.last_frame_timestamp = frame_timestamp],
              out |-> [should_send |-> d.count > 0,
                       frames_to_send |-> d.count]]

(***************************************************************************)
(* ndi_converter_update_scaler and ndi_converter_scale_video.  create_ok   *)
(* is whether video_scaler_create returns VIDEO_SCALER_SUCCESS, scale_ok   *)
(* is the return value of video_scaler_scale.  The target sizes of the     *)
(* model keep target_width * target_height * 4 below 2^31.                 *)
(***************************************************************************)
\* mutant: the early return tests the enable flag only
scaler_disabled_flag_only(conv) == ~conv.enable_custom_resolution

\* the early return of lines 218-221: nothing to scale to
scaler_disabled(conv) ==
    ~conv.enable_custom_resolution \/ conv.target_width = 0
    \/ conv.target_height = 0

\* mutant: a change of format alone keeps the scaler
need_recreate_ignores_format(conv, source_width, source_height, source_format) ==
    \/ ~conv.scaler.live
    \/ conv.source_width # source_width
    \/ conv.source_height # source_height

\* need_recreate, lines 223-226
need_recreate(conv, source_width, source_height, source_format) ==
    \/ ~conv.scaler.live
    \/ conv.source_width # source_width
    \/ conv.source_height # source_height
    \/ conv.source_format # source_format

\* the scaler video_scaler_create builds, lines 242-275
scaler_create(conv, source_width, source_height, source_format) ==
    [live |-> TRUE, src_width |-> source_width, src_height |-> source_height,
     src_format |-> source_format, dst_width |-> conv.target_width,
     dst_height |-> conv.target_height]

\* mutant: the failure path records the geometry of the frame
scaler_create_failed_records_source(conv, source_width, source_height, source_format) ==
    [conv EXCEPT !.scaler = NoScaler,
                 !.source_width = source_width,
                 !.source_height = source_height,
                 !.source_format = source_format]

\* the failure path of lines 276-280, after the old scaler was destroyed
scaler_create_failed(conv, source_width, source_height, source_format) ==
    [conv EXCEPT !.scaler = NoScaler]

\* the buffer allocation of lines 288-297
scaled_buffer_alloc(conv) ==
    LET required_size == conv.target_width * conv.target_height * 4
    IN  IF conv.scaled_buffer_size < required_size
        THEN [conv EXCEPT !.scaled_buffer = [bytes |-> required_size],
                          !.scaled_buffer_size = required_size]
        ELSE conv

\* mutant: the old scaler is dropped without video_scaler_destroy
scaler_destroy_old_skipped(conv) == <<>>

\* the call that destroys the old scaler, lines 236-240
scaler_destroy_old(conv) ==
    IF conv.scaler.live THEN <<"video_scaler_destroy">> ELSE <<>>

\* the allocator calls of the buffer allocation, lines 288-297
scaled_buffer_alloc_calls(conv) ==
    LET required_size == conv.target_width * conv.target_height * 4
    IN  IF conv.scaled_buffer_size < required_size
        THEN (IF conv.scaled_buffer # NoBuffer THEN <<"bfree">> ELSE <<>>)
             \o <<"bmalloc">>
        ELSE <<>>

\* [conv: the converter afterwards, ret: the return value, create: whether
\* video_scaler_create was called and how it ended, reused: the early
\* return of lines 228-231, calls: the calls made on scalers and buffers,
\* in order]
ndi_converter_update_scaler(conv, source_width, source_height, source_format, create_ok) ==
    CASE scaler_disabled(conv) ->
            [conv |-> conv, ret |-> FALSE, create |-> "none",
             reused |-> FALSE, calls |-> <<>>]
      [] ~scaler_disabled(conv)
         /\ ~need_recreate(conv, source_width, source_height,
                           source_format) ->
            [conv |-> conv, ret |-> TRUE, create |-> "none", reused |-> TRUE,
             calls |-> <<>>]
      [] OTHER ->
            IF create_ok
            THEN [conv |-> scaled_buffer_alloc(
                      [conv EXCEPT
                          !.scaler = scaler_create(conv, source_width,
                                         source_height, source_format),
                          !.source_width = source_width,
                          !.source_height = source_height,
                          !.source_format = source_format]),
                  ret |-> TRUE, create |-> "ok", reused |-> FALSE,
                  calls |-> scaler_destroy_old(conv)
                            \o <<"video_scaler_create">>
                            \o scaled_buffer_alloc_calls(conv)]
            ELSE [conv |-> scaler_create_failed(conv, source_width,
                               source_height, source_format),
                  ret |-> FALSE, create |-> "failed", reused |-> FALSE,
                  calls |-> scaler_destroy_old(conv)]

\* mutant: the line size in pixels
scale_video_outputs_pixel_stride(conv) ==
    [written |-> TRUE, frame_out |-> conv.scaled_buffer,
     linesize_out |-> conv.target_width]

\* *frame_out and *linesize_out of a call that returns true, lines 329-333
scale_video_outputs(conv) ==
    [written |-> TRUE, frame_out |-> conv.scaled_buffer,
     linesize_out |-> conv.target_width * 4]

\* *frame_out and *linesize_out of a call that returns false: not written
scale_video_no_outputs ==
    [written |-> FALSE, frame_out |-> NoBuffer, linesize_out |-> 0]

\* [conv, ret, create, reused as above, scaled: whether video_scaler_scale
\* was called and how it ended, out: the output parameters]
ndi_converter_scale_video(conv, source_width, source_height, source_format, create_ok, scale_ok) ==
    LET u == ndi_converter_update_scaler(conv, source_width, source_height,
                                         source_format, create_ok)
        base == [conv |-> u.conv, create |-> u.create, reused |-> u.reused]
        scale == <<"video_scaler_scale">>
    IN  CASE ~u.ret ->
                base @@ [ret |-> FALSE, scaled |-> "none",
                         out |-> scale_video_no_outputs, calls |-> u.calls]
          [] u.ret /\ (~u.conv.scaler.live
                       \/ u.conv.scaled_buffer = NoBuffer) ->
                base @@ [ret |-> FALSE, scaled |-> "none",
                         out |-> scale_video_no_outputs, calls |-> u.calls]
          [] OTHER ->
                IF scale_ok
                THEN base @@ [ret |-> TRUE, scaled |-> "ok",
                              out |-> scale_video_outputs(u.conv),
                              calls |-> u.calls \o scale]
                ELSE base @@ [ret |-> FALSE, scaled |-> "failed",
                              out |-> scale_video_no_outputs,
                              calls |-> u.calls \o scale]

\* the converter after memset(converter, 0, sizeof ...), line 382
converter_zeroed ==
    [enable_custom_resolution |-> FALSE, resolution_mode |-> 0,
     custom_width |-> 0, custom_height |-> 0,
     target_width |-> 0, target_height |-> 0, scale_type |-> 0,
     enable_crop |-> FALSE, crop_left |-> 0, crop_top |-> 0,
     crop_width |-> 0, crop_height |-> 0,
     enable_custom_framerate |-> FALSE, framerate_mode |-> 0,
     custom_fps_num |-> 0, custom_fps_den |-> 0,
     target_fps_num |-> 0, target_fps_den |-> 0,
     accumulator_ns |-> 0, target_frame_interval_ns |-> 0,
     last_frame_timestamp |-> Ts(0, 0),
     scaler |-> NoScaler, scaled_buffer |-> NoBuffer,
     scaled_buffer_size |-> 0,
     source_width |-> 0, source_height |-> 0,
     source_format |-> VIDEO_FORMAT_NONE]

\* the calls of ndi_converter_destroy on the scaler and the buffer, lines
\* 369-380
converter_destroy_calls(conv) ==
    (IF conv.scaler.live THEN <<"video_scaler_destroy">> ELSE <<>>)
    \o (IF conv.scaled_buffer # NoBuffer THEN <<"bfree">> ELSE <<>>)

\* ndi_converter_destroy, lines 369-383
ndi_converter_destroy(conv) ==
    [conv |-> converter_zeroed, calls |-> converter_destroy_calls(conv)]

(***************************************************************************)
(* The scalers and buffers of the host's allocator that the converter made *)
(* and has not given back yet.  A count saturates at HeapMax; fault names  *)
(* the first call on a scaler or buffer that is not there.                 *)
(***************************************************************************)
HeapMax == 2

NoHeap == [scalers |-> 0, buffers |-> 0, fault |-> "none"]

heap_fault(h, what) == IF h.fault = "none" THEN [h EXCEPT !.fault = what] ELSE h

heap_call(h, call) ==
    CASE call = "video_scaler_create" ->
            [h EXCEPT !.scalers = IF @ < HeapMax THEN @ + 1 ELSE @]
      [] call = "video_scaler_destroy" ->
            IF h.scalers = 0 THEN heap_fault(h, "double destroy")
            ELSE [h EXCEPT !.scalers = @ - 1]
      [] call = "bmalloc" ->
            [h EXCEPT !.buffers = IF @ < HeapMax THEN @ + 1 ELSE @]
      [] call = "bfree" ->
            IF h.buffers = 0 THEN heap_fault(h, "double free")
            ELSE [h EXCEPT !.buffers = @ - 1]
      [] call = "video_scaler_scale" ->
            IF h.scalers = 0 \/ h.buffers = 0
            THEN heap_fault(h, "use after free") ELSE h

RECURSIVE heap_apply(_, _)
heap_apply(h, calls) ==
    IF calls = <<>> THEN h
    ELSE heap_apply(heap_call(h, Head(calls)), Tail(calls))

(***************************************************************************)
(* Inputs of the model.                                                    *)
(***************************************************************************)
\* resolution_mode values of a snapshot: the enumeration and one value on
\* each side of it
ResModeInputs == (NDI_RESOLUTION_AUTO - 1) .. (NDI_RESOLUTION_CUSTOM + 1)

\* (custom_width, custom_height) values of a snapshot: below the range, in
\* it, above it, and negative (a pattern of 2^32 - 1)
ResDimInputs == {<<0, 0>>, <<1920, 1080>>, <<100000, 100000>>, <<-1, -1>>}

\* framerate_mode values of a snapshot
FpsModeInputs == (NDI_FRAMERATE_AUTO - 1) .. (NDI_FRAMERATE_CUSTOM + 1)

\* (custom_fps_num, custom_fps_den) values of a snapshot: 0/0 (clamped to
\* 1/1), rates with an interval of 2 and 3 ns, a rate above 10^9 per second,
\* a negative numerator (a pattern of 2^32 - 1), and 30000/1001
FpsPairInputs ==
    {<<0, 0>>, <<500000000, 1>>, <<333333333, 1>>, <<2000000000, 1>>,
     <<-1, 1>>, <<30000, 1001>>}

\* the defaults of ndi_filter_getdefaults
DefaultSettings ==
    MakeSettings(FALSE, NDI_RESOLUTION_1080P, <<1920, 1080>>,
                 FALSE, NDI_FRAMERATE_30, <<30, 1>>)

\* a slice leaves the keys it does not vary at their defaults
ResSettings ==
    {MakeSettings(on, mode, dim, FALSE, NDI_FRAMERATE_30, <<30, 1>>) :
        on \in BOOLEAN, mode \in ResModeInputs, dim \in ResDimInputs}

FpsSettings ==
    {MakeSettings(FALSE, NDI_RESOLUTION_1080P, <<1920, 1080>>, on, mode, fps) :
        on \in BOOLEAN, mode \in FpsModeInputs, fps \in FpsPairInputs}

SettingsInputs == ResSettings \cup FpsSettings

\* frame timestamps: every nanosecond value up to MaxTs, in any order
TsInputs == {Ts(0, k) : k \in 0 .. MaxTs}

(***************************************************************************)
(* The filter's view of the host: obs_video_info of ndi_filter_create.     *)
(***************************************************************************)
ovi == [fps_num |-> 60, fps_den |-> 1]

\* obs_source_get_width / obs_source_get_height of the filtered source
HostSize == [width |-> 1920, height |-> 1080]

(***************************************************************************)
(* History of the paced gate calls since the last pacing reset (lines      *)
(* 205-207): how many, how many emissions they returned in total, the      *)
(* first timestamp, whether the timestamps never decreased, and the        *)
(* spacing of the timestamps while it is constant.                         *)
(***************************************************************************)
NoHist ==
    [n |-> 0, total |-> 0, first |-> Ts(0, 0), last |-> Ts(0, 0),
     mono |-> TRUE, spacing |-> [kind |-> "none", S |-> 0]]

NoGate == [called |-> FALSE, should_send |-> FALSE, frames_to_send |-> 0]

\* no send observed.  known and source are the sizes the callback read.
NoSize == [width |-> 0, height |-> 0]

NoSend ==
    [count |-> 0, fps_num |-> 0, fps_den |-> 0,
     left |-> 0, top |-> 0, xres |-> 0, yres |-> 0,
     known |-> NoSize, source |-> NoSize, sends |-> <<>>]

\* no snapshot applied yet.  set: an update has returned; settings: the
\* snapshot of the last update that began; completed: the snapshot of the
\* last update that has returned; stage: the part of the converter that an
\* update in progress writes next, "done" when no update is in progress.
NoSettings ==
    [set |-> FALSE, settings |-> DefaultSettings,
     completed |-> DefaultSettings, stage |-> "done"]

\* no resampler call observed
NoScale ==
    [op |-> "none", source |-> <<<<0, 0>>, VIDEO_FORMAT_NONE>>,
     ret |-> FALSE, create |-> "none", reused |-> FALSE,
     written |-> FALSE, frame_out |-> NoBuffer, linesize_out |-> 0,
     scaled |-> "none"]

\* no preset table was looked up
NoPreset == [op |-> "none", mode |-> 0, out |-> <<>>]

next_spacing(sp, d) ==
    CASE sp.kind = "none" -> [kind |-> "fixed", S |-> d]
      [] sp.kind = "fixed" /\ sp.S = d -> sp
      [] OTHER -> [kind |-> "varied", S |-> 0]

hist_after(conv, frame_timestamp, count) ==
    IF gate_bypass(conv) THEN hist
    ELSE LET d == TsDiff(frame_timestamp, conv.last_frame_timestamp)
         IN  [n |-> hist.n + 1,
              total |-> hist.total + count,
              first |-> IF hist.n = 0 THEN frame_timestamp ELSE hist.first,
              last |-> frame_timestamp,
              mono |-> hist.mono /\ (hist.n = 0 \/ d >= 0),
              spacing |-> IF hist.n = 0 THEN hist.spacing
                          ELSE next_spacing(hist.spacing, d)]

(***************************************************************************)
(* The sender of a filter.  A sender handle is 0 (null) or the number of   *)
(* the send_create call that made it.  A mutex is "free", held by a        *)
(* thread, or "uninitialised" (the video mutex of an audio-only filter,    *)
(* which ndi_filter_create_audioonly leaves as bzalloc made it).  A thread *)
(* of the host is inside at most one callback of the filter: todo is what  *)
(* is left of that callback, arg the sender handle of the send it is       *)
(* making.                                                                 *)
(***************************************************************************)
\* the thread that applies settings, the graphics thread (video_tick,
\* video_render), the thread of the video output (raw video), the audio
\* thread (filter_audio), a caller of ndi_sender_destroy, and the thread
\* that destroys the filter
Threads == {"settings", "graphics", "video", "audio", "teardown", "destroy"}

NoArg == 0 - 1

Idle == [todo |-> <<>>, arg |-> NoArg]

VideoMutex == "ndi_sender_video_mutex"
AudioMutex == "ndi_sender_audio_mutex"

\* the fields of ndi_filter_t behind the sender after ndi_filter_create
\* (is_audioonly = FALSE) or ndi_filter_create_audioonly (TRUE), before the
\* first ndi_filter_update
filter_created(is_audioonly) ==
    [is_audioonly |-> is_audioonly,
     ndi_sender |-> 0,
     ndi_sender_video_mutex |->
         IF is_audioonly THEN "uninitialised" ELSE "free",
     ndi_sender_audio_mutex |-> "free"]

\* the NDI library: the senders that exist, the number of send_create calls
\* that made one, and the first call that was made on a sender that does not
\* exist any more or is in use
NoSenders == [live |-> {}, made |-> 0, fault |-> "none"]

ndi_fault(lib, what) ==
    IF lib.fault = "none" THEN [lib EXCEPT !.fault = what] ELSE lib

\* send_create, the n-th that succeeds returns handle n; a null handle when
\* it fails
send_create(lib, ok) ==
    IF ok
    THEN [lib |-> [lib EXCEPT !.live = @ \cup {lib.made + 1},
                              !.made = @ + 1],
          handle |-> lib.made + 1]
    ELSE [lib |-> lib, handle |-> 0]

\* send_destroy(handle) while the sends of `sending` are in progress; a null
\* handle is ignored
send_destroy(lib, handle, sending) ==
    CASE handle = 0 -> lib
      [] handle # 0 /\ handle \notin lib.live ->
            ndi_fault(lib, "send_destroy on a destroyed sender")
      [] handle # 0 /\ handle \in lib.live /\ handle \in sending ->
            ndi_fault([lib EXCEPT !.live = @ \ {handle}],
                      "send_destroy during a send")
      [] OTHER -> [lib EXCEPT !.live = @ \ {handle}]

\* send_send_video_v2 / send_send_audio_v3 on handle; a null handle is
\* ignored
send_send(lib, handle) ==
    IF handle # 0 /\ handle \notin lib.live
    THEN ndi_fault(lib, "send on a destroyed sender")
    ELSE lib

\* the instructions of the callbacks that touch the sender or a mutex
Ins(op, m) == [op |-> op, m |-> m]

\* `if (!filter->is_audioonly) { ... }`
unless_audioonly(is_audioonly, todo) == IF is_audioonly THEN <<>> ELSE todo

\* mutant: ndi_sender_create takes the audio mutex first
ndi_sender_create_audio_first(is_audioonly) ==
    <<Ins("lock", AudioMutex)>>
    \o unless_audioonly(is_audioonly, <<Ins("lock", VideoMutex)>>)
    \o <<Ins("send_destroy", ""), Ins("send_create", "")>>
    \o unless_audioonly(is_audioonly, <<Ins("unlock", VideoMutex)>>)
    \o <<Ins("unlock", AudioMutex)>>

\* mutant: ndi_sender_create takes the audio mutex only
ndi_sender_create_audio_only(is_audioonly) ==
    <<Ins("lock", AudioMutex),
      Ins("send_destroy", ""), Ins("send_create", ""),
      Ins("unlock", AudioMutex)>>

\* ndi_sender_create, lines 474-485
ndi_sender_create(is_audioonly) ==
    unless_audioonly(is_audioonly, <<Ins("lock", VideoMutex)>>)
    \o <<Ins("lock", AudioMutex),
         Ins("send_destroy", ""), Ins("send_create", ""),
         Ins("unlock", AudioMutex)>>
    \o unless_audioonly(is_audioonly, <<Ins("unlock", VideoMutex)>>)

\* ndi_sender_destroy, lines 433-451; the test of line 435 reads the sender
\* with no mutex held
ndi_sender_destroy(f) ==
    IF f.ndi_sender = 0 THEN <<>>
    ELSE unless_audioonly(f.is_audioonly, <<Ins("lock", VideoMutex)>>)
         \o <<Ins("lock", AudioMutex),
              Ins("send_destroy", ""), Ins("clear", ""),
              Ins("unlock", AudioMutex)>>
         \o unless_audioonly(f.is_audioonly, <<Ins("unlock", VideoMutex)>>)

\* ndi_filter_update, lines 488-504
ndi_filter_update(f) ==
    ndi_sender_create(f.is_audioonly) \o <<Ins("converter_update", "")>>

\* ndi_filter_tick, lines 605-616; valid is is_filter_valid(f), and the
\* sender is read with no mutex held
ndi_filter_tick(f, valid) ==
    IF valid /\ f.ndi_sender = 0 THEN ndi_sender_create(f.is_audioonly)
    ELSE <<>>

\* one send of a video frame, lines 330-332 and 351-353
send_video ==
    <<Ins("lock", VideoMutex), Ins("send", ""), Ins("sent", ""),
      Ins("unlock", VideoMutex)>>

\* the send loop of ndi_filter_raw_video, lines 314-333
RECURSIVE raw_video_sends(_)
raw_video_sends(frames_to_send) ==
    IF frames_to_send <= 0 THEN <<>>
    ELSE send_video \o raw_video_sends(frames_to_send - 1)

\* the send of ndi_filter_asyncaudio, lines 659-661
ndi_filter_asyncaudio ==
    <<Ins("lock", AudioMutex), Ins("send", ""), Ins("sent", ""),
      Ins("unlock", AudioMutex)>>

\* ndi_filter_destroy (lines 551-581) and ndi_filter_destroy_audioonly
\* (lines 584-601); "gone" stands for the freed filter and is never run
ndi_filter_destroy(is_audioonly) ==
    IF is_audioonly
    THEN <<Ins("lock", AudioMutex), Ins("send_destroy", ""),
           Ins("unlock", AudioMutex), Ins("free", ""), Ins("gone", "")>>
    ELSE <<Ins("video_output_close", ""),
           Ins("lock", VideoMutex), Ins("lock", AudioMutex),
           Ins("send_destroy", ""),
           Ins("unlock", AudioMutex), Ins("unlock", VideoMutex),
           Ins("free", ""), Ins("gone", "")>>

(***************************************************************************)
(* State machine.                                                          *)
(***************************************************************************)
InitConverter ==
    /\ converter = ndi_converter_init
    /\ last_op = "init"
    /\ gate_out = NoGate
    /\ sent = NoSend
    /\ hist = NoHist
    /\ applied = NoSettings
    /\ scale_out = NoScale
    /\ heap = NoHeap
    /\ preset_out = NoPreset

\* a video filter after construction, no thread of the host inside it
Init ==
    /\ InitConverter
    /\ filter = filter_created(FALSE)
    /\ pc = [t \in Threads |-> Idle]
    /\ ndiLib = NoSenders

\* ndi_converter_update on one settings snapshot
UpdateConverter(settings) ==
    /\ converter' = ndi_converter_update(converter, settings)
    /\ last_op' = "update"
    /\ gate_out' = NoGate
    /\ sent' = NoSend
    /\ hist' = NoHist
    /\ applied' = [set |-> TRUE, settings |-> settings,
                   completed |-> settings, stage |-> "done"]
    /\ scale_out' = NoScale
    /\ UNCHANGED <<heap, preset_out>>

\* ndi_filter_update -> ndi_converter_update, the sender left aside
Update(settings) == UpdateConverter(settings) /\ UNCHANGED sender_vars

\* a paced call is followed while fewer than max_frames were made
CanCall(conv, max_frames) == gate_bypass(conv) \/ hist.n < max_frames

\* a direct call of ndi_converter_should_send_frame
Gate(frame_timestamp, max_frames) ==
    /\ CanCall(converter, max_frames)
    /\ LET g == ndi_converter_should_send_frame(converter, frame_timestamp)
       IN  /\ converter' = g.conv
           /\ gate_out' = [called |-> TRUE,
                           should_send |-> g.out.should_send,
                           frames_to_send |-> g.out.frames_to_send]
           /\ hist' = hist_after(converter, frame_timestamp,
                                 g.out.frames_to_send)
    /\ last_op' = "gate"
    /\ sent' = NoSend
    /\ scale_out' = NoScale
    /\ UNCHANGED <<applied, heap, preset_out,
                   filter, pc, ndiLib>>

\* frame rate limiting, lines 219-226
raw_video_gate(conv, frame_timestamp) ==
    IF conv.enable_custom_framerate
    THEN LET g == ndi_converter_should_send_frame(conv, frame_timestamp)
         IN  [conv |-> g.conv, called |-> TRUE,
              should_send |-> g.out.should_send,
              frames_to_send |-> g.out.frames_to_send,
              skip |-> ~g.out.should_send \/ g.out.frames_to_send = 0]
    ELSE [conv |-> conv, called |-> FALSE, should_send |-> FALSE,
          frames_to_send |-> 1, skip |-> FALSE]

\* frame rate metadata, lines 228-235
raw_video_fps(conv) ==
    IF conv.enable_custom_framerate /\ U32Lt(0, conv.target_fps_num)
       /\ U32Lt(0, conv.target_fps_den)
    THEN [fps_num |-> conv.target_fps_num, fps_den |-> conv.target_fps_den]
    ELSE [fps_num |-> ovi.fps_num, fps_den |-> ovi.fps_den]

\* crop coordinates in scaled space, lines 250-275: mapped by known / source
\* when resolution conversion is active and the source size is known
raw_video_crop_normalize(conv, known, source) ==
    IF conv.enable_custom_resolution /\ U32Lt(0, conv.target_width)
       /\ U32Lt(0, conv.target_height)
       /\ U32Lt(0, source.width) /\ U32Lt(0, source.height)
    THEN LET scale_x == f32_div(known.width, source.width)
             scale_y == f32_div(known.height, source.height)
         IN  [left |-> f32_mul_trunc(conv.crop_left, scale_x),
              top |-> f32_mul_trunc(conv.crop_top, scale_y),
              width |-> f32_mul_trunc(conv.crop_width, scale_x),
              height |-> f32_mul_trunc(conv.crop_height, scale_y)]
    ELSE [left |-> conv.crop_left, top |-> conv.crop_top,
          width |-> conv.crop_width, height |-> conv.crop_height]

\* `0 means use full dimension`, lines 277-281
raw_video_crop_default(c, known) ==
    [c EXCEPT !.width = IF c.width = 0 THEN known.width ELSE c.width,
              !.height = IF c.height = 0 THEN known.height ELSE c.height]

\* the clamp of one axis, lines 283-297: the position (int32_t) into
\* [0, known - 1], then the extent where position + extent (uint32_t
\* addition) exceeds known
raw_video_crop_clamp_axis(pos, extent, known) ==
    LET p0 == IF pos < 0 THEN 0 ELSE pos
        p == IF ~U32Lt(p0, known) THEN known - 1 ELSE p0
    IN  [pos |-> p,
         extent |-> IF U32Lt(known, U32Add(p, extent)) THEN known - p
                    ELSE extent]

\* the region of the frame a send carries for the crop coordinates c of
\* scaled space, lines 277-311: the whole frame, or the crop rectangle when
\* cropping is enabled and the rectangle is not the whole frame
raw_video_region_of(conv, known, c) ==
    LET full == [left |-> 0, top |-> 0,
                 xres |-> known.width, yres |-> known.height]
        d == raw_video_crop_default(c, known)
        x == raw_video_crop_clamp_axis(d.left, d.width, known.width)
        y == raw_video_crop_clamp_axis(d.top, d.height, known.height)
    IN  IF conv.enable_crop
        THEN IF x.extent # 0 /\ y.extent # 0
                /\ (x.pos > 0 \/ y.pos > 0 \/ U32Lt(x.extent, known.width)
                    \/ U32Lt(y.extent, known.height))
             THEN [left |-> x.pos, top |-> y.pos,
                   xres |-> x.extent, yres |-> y.extent]
             ELSE full
        ELSE full

\* mutant: the crop rectangle is applied whether or not cropping is enabled
raw_video_region_crop_always(conv, known, source) ==
    raw_video_region_of([conv EXCEPT !.enable_crop = TRUE], known,
                        raw_video_crop_normalize(conv, known, source))

\* the region of the frame a send carries, lines 237-311
raw_video_region(conv, known, source) ==
    raw_video_region_of(conv, known,
                        raw_video_crop_normalize(conv, known, source))

\* the NDIlib_video_frame_v2_t of a send, lines 317-328: p_data is the
\* offset of the first byte sent from frame->data[0], and frame->linesize[0]
\* is that of a BGRA frame of the known width
raw_video_frame(r, known) ==
    [xres |-> r.xres, yres |-> r.yres,
     p_data |-> r.top * (known.width * 4) + r.left * 4,
     line_stride_in_bytes |-> known.width * 4]

\* mutant: one send whatever the count
raw_video_send_once(frames_to_send, video_frame) == <<video_frame>>

\* the send loop, lines 314-333: the frames passed to send_send_video_v2,
\* in order
raw_video_send(frames_to_send, video_frame) ==
    [i \in 1 .. frames_to_send |-> video_frame]

GateCall(frame_timestamp) == Gate(frame_timestamp, MaxFrames)

\* ndi_filter_raw_video for one (non-null) frame.  known is the pair
\* f->known_width, f->known_height: the size of the video output that
\* delivers the frame, left by the last ndi_filter_render_video (lines
\* 356-388).  source is what obs_source_get_width / obs_source_get_height
\* report during the call.
RawVideoConverter(frame_timestamp, known, source, max_frames) ==
    /\ CanCall(converter, max_frames)
    /\ LET g == raw_video_gate(converter, frame_timestamp)
           m == raw_video_fps(g.conv)
           r == raw_video_region(g.conv, known, source)
           sends == raw_video_send(g.frames_to_send,
                                   raw_video_frame(r, known))
       IN  /\ converter' = g.conv
           /\ gate_out' = [called |-> g.called,
                           should_send |-> g.should_send,
                           frames_to_send |->
                               IF g.called THEN g.frames_to_send ELSE 0]
           /\ hist' = IF g.called
                      THEN hist_after(converter, frame_timestamp,
                                      g.frames_to_send)
                      ELSE hist
           /\ sent' = IF g.skip THEN NoSend
                      ELSE [count |-> Len(sends),
                            fps_num |-> m.fps_num, fps_den |-> m.fps_den,
                            left |-> r.left, top |-> r.top,
                            xres |-> r.xres, yres |-> r.yres,
                            known |-> known, source |-> source,
                            sends |-> sends]
    /\ last_op' = "raw_video"
    /\ scale_out' = NoScale
    /\ UNCHANGED <<applied, heap, preset_out>>

\* ndi_filter_raw_video with its sends made at once, the sender left aside
RawVideoFrame(frame_timestamp, known, source, max_frames) ==
    RawVideoConverter(frame_timestamp, known, source, max_frames)
    /\ UNCHANGED sender_vars

\* Spec: every frame comes from a 1920x1080 output of a 1920x1080 source
RawVideo(frame_timestamp) ==
    RawVideoFrame(frame_timestamp, HostSize, HostSize, MaxFrames)

Next ==
    \/ \E settings \in SettingsInputs : Update(settings)
    \/ \E ts \in TsInputs : GateCall(ts)
    \/ \E ts \in TsInputs : RawVideo(ts)

Spec == Init /\ [][Next]_vars

(***************************************************************************)
(* SpecPacing: the gate under longer frame sequences.  The snapshots are   *)
(* the frame-rate configurations with a short interval (2 and 3 ns), the   *)
(* Auto mode and the disabled configuration.                               *)
(***************************************************************************)
PacingSettings ==
    {MakeSettings(FALSE, NDI_RESOLUTION_1080P, <<1920, 1080>>, on, mode, fps) :
        on \in BOOLEAN, mode \in {NDI_FRAMERATE_AUTO, NDI_FRAMERATE_CUSTOM},
        fps \in {<<500000000, 1>>, <<333333333, 1>>}}

PacingTsInputs == {Ts(0, k) : k \in 0 .. PaceMaxTs}

PaceUpdate(settings) == Update(settings)

PaceFrame(frame_timestamp) == Gate(frame_timestamp, PaceMaxFrames)

NextPacing ==
    \/ \E settings \in PacingSettings : PaceUpdate(settings)
    \/ \E ts \in PacingTsInputs : PaceFrame(ts)

SpecPacing == Init /\ [][NextPacing]_vars

(***************************************************************************)
(* SpecNtsc: the 29.97 fps preset resolved on a fresh converter, then 1001 *)
(* frames 33333333 ns apart, the first at one of NtscFirstTs.              *)
(***************************************************************************)
NtscScenario == [frames |-> 1001, spacing |-> 33333333]

NtscSettings ==
    MakeSettings(FALSE, NDI_RESOLUTION_1080P, <<1920, 1080>>,
                 TRUE, NDI_FRAMERATE_2997, <<30, 1>>)

NtscFirstTs == {Ts(0, 0), Ts(0, 1), Ts(7, 999999999)}

NtscResolve ==
    /\ last_op = "init"
    /\ Update(NtscSettings)

NtscFirstFrame ==
    /\ last_op = "update"
    /\ \E t0 \in NtscFirstTs : Gate(t0, NtscScenario.frames)

NtscNextFrame ==
    /\ last_op = "gate"
    /\ Gate(TsAdd(converter.last_frame_timestamp, NtscScenario.spacing),
            NtscScenario.frames)

NextNtsc == NtscResolve \/ NtscFirstFrame \/ NtscNextFrame

SpecNtsc == Init /\ [][NextNtsc]_vars

(***************************************************************************)
(* SpecScaler: the resampler under changes of the target and of the        *)
(* frames' geometry, with video_scaler_create and video_scaler_scale       *)
(* succeeding or failing.                                                  *)
(***************************************************************************)
\* resolution conversion disabled, enabled with Auto (no target), two
\* presets and the smallest custom size
ScalerSettings ==
    {MakeSettings(on, mode, <<0, 0>>, FALSE, NDI_FRAMERATE_30, <<30, 1>>) :
        on \in BOOLEAN,
        mode \in {NDI_RESOLUTION_AUTO, NDI_RESOLUTION_720P,
                  NDI_RESOLUTION_1080P, NDI_RESOLUTION_CUSTOM}}

\* (source_width, source_height, source_format) of a frame
ScalerFrameInputs ==
    {<<1280, 720>>, <<1920, 1080>>}
        \X {VIDEO_FORMAT_NV12, VIDEO_FORMAT_BGRA}

ScalerUpdate(settings) == Update(settings)

\* a direct call of ndi_converter_update_scaler
UpdateScaler(frame, create_ok) ==
    /\ LET u == ndi_converter_update_scaler(converter, frame[1][1],
                     frame[1][2], frame[2], create_ok)
       IN  /\ converter' = u.conv
           /\ heap' = heap_apply(heap, u.calls)
           /\ scale_out' = [NoScale EXCEPT !.op = "update_scaler",
                                           !.source = frame,
                                           !.ret = u.ret,
                                           !.create = u.create,
                                           !.reused = u.reused]
    /\ last_op' = "update_scaler"
    /\ gate_out' = NoGate
    /\ sent' = NoSend
    /\ UNCHANGED <<hist, applied, preset_out,
                   filter, pc, ndiLib>>

\* a call of ndi_converter_scale_video
ScaleVideo(frame, create_ok, scale_ok) ==
    /\ LET v == ndi_converter_scale_video(converter, frame[1][1],
                     frame[1][2], frame[2], create_ok, scale_ok)
       IN  /\ converter' = v.conv
           /\ heap' = heap_apply(heap, v.calls)
           /\ scale_out' = [op |-> "scale_video", source |-> frame,
                            ret |-> v.ret,
                            create |-> v.create, reused |-> v.reused,
                            written |-> v.out.written,
                            frame_out |-> v.out.frame_out,
                            linesize_out |-> v.out.linesize_out,
                            scaled |-> v.scaled]
    /\ last_op' = "scale_video"
    /\ gate_out' = NoGate
    /\ sent' = NoSend
    /\ UNCHANGED <<hist, applied, preset_out,
                   filter, pc, ndiLib>>

NextScaler ==
    \/ \E settings \in ScalerSettings : ScalerUpdate(settings)
    \/ \E frame \in ScalerFrameInputs, create_ok \in BOOLEAN :
           UpdateScaler(frame, create_ok)
    \/ \E frame \in ScalerFrameInputs, create_ok \in BOOLEAN,
          scale_ok \in BOOLEAN :
           ScaleVideo(frame, create_ok, scale_ok)

SpecScaler == Init /\ [][NextScaler]_vars

(***************************************************************************)
(* SpecCrop: the crop rectangle of the frame callback.  Frame-rate         *)
(* conversion is disabled, every frame is sent once.  Crop extents of      *)
(* 2^32 - 1 come with resolution conversion disabled: mapped, they leave   *)
(* the range of the float to integer cast.                                 *)
(***************************************************************************)
\* resolution conversion disabled, to 1920x1080 and to a custom 1000x1080
CropBaseSettings ==
    {DefaultSettings,
     MakeSettings(TRUE, NDI_RESOLUTION_1080P, <<1920, 1080>>,
                  FALSE, NDI_FRAMERATE_30, <<30, 1>>),
     MakeSettings(TRUE, NDI_RESOLUTION_CUSTOM, <<1000, 1080>>,
                  FALSE, NDI_FRAMERATE_30, <<30, 1>>)}

\* (crop_left, crop_top)
CropPosInputs == {<<0, 0>>, <<1, 0>>, <<100, 50>>, <<240, 0>>, <<1920, 1080>>}

\* (crop_width, crop_height)
CropExtentInputs == {<<0, 0>>, <<400, 300>>, <<480, 0>>, <<-1, -1>>}

CropSettings ==
    {settings \in
        {MakeCropSettings(base, on, pos, extent) :
            base \in CropBaseSettings, on \in BOOLEAN,
            pos \in CropPosInputs, extent \in CropExtentInputs} :
        settings.crop_width >= 0 \/ ~settings.enable_custom_resolution}

\* (known, source) sizes of a frame: unscaled, 4K to 1080p, 1080p to
\* 1000x1080, and a source of unknown size
CropFrameInputs ==
    {<<[width |-> 1920, height |-> 1080], [width |-> 1920, height |-> 1080]>>,
     <<[width |-> 1920, height |-> 1080], [width |-> 3840, height |-> 2160]>>,
     <<[width |-> 1000, height |-> 1080], [width |-> 1920, height |-> 1080]>>,
     <<[width |-> 1920, height |-> 1080], [width |-> 0, height |-> 0]>>}

CropUpdate(settings) == Update(settings)

CropFrame(frame) == RawVideoFrame(Ts(0, 1), frame[1], frame[2], MaxFrames)

NextCrop ==
    \/ \E settings \in CropSettings : CropUpdate(settings)
    \/ \E frame \in CropFrameInputs : CropFrame(frame)

SpecCrop == Init /\ [][NextCrop]_vars

(***************************************************************************)
(* SpecConfig: ndi_converter_update alone, on snapshots whose integer keys *)
(* are negative, zero, in range and oversized.  A negative                 *)
(* custom_fps_den (a pattern of 2^32 - 1 or so) comes with frame-rate      *)
(* conversion disabled: its interval of about 10^17 ns is not computed.    *)
(***************************************************************************)
ConfigDimInputs ==
    {<<-1, -1>>, <<0, 0>>, <<127, 71>>, <<128, 72>>, <<1920, 1080>>,
     <<7680, 4320>>, <<7681, 4321>>}

\* (enable_custom_framerate, <<custom_fps_num, custom_fps_den>>)
ConfigFpsInputs ==
    {<<TRUE, <<0, 0>>>>, <<TRUE, <<-1, 1>>>>, <<TRUE, <<30000, 1001>>>>,
     <<FALSE, <<30, -1>>>>, <<FALSE, <<-7, -7>>>>}

\* (crop_left, crop_top)
ConfigCropPosInputs == {<<-5, -9>>, <<0, 0>>, <<100, 50>>}

\* (crop_width, crop_height)
ConfigCropExtentInputs == {<<0, 0>>, <<400, 300>>, <<0, 300>>, <<-1, -1>>}

ConfigSettings ==
    {MakeCropSettings(
         MakeSettings(TRUE, NDI_RESOLUTION_CUSTOM, dim,
                      fps[1], NDI_FRAMERATE_CUSTOM, fps[2]),
         on, pos, extent) :
        dim \in ConfigDimInputs, fps \in ConfigFpsInputs, on \in BOOLEAN,
        pos \in ConfigCropPosInputs, extent \in ConfigCropExtentInputs}

ConfigUpdate(settings) == Update(settings)

NextConfig == \E settings \in ConfigSettings : ConfigUpdate(settings)

SpecConfig == Init /\ [][NextConfig]_vars

(***************************************************************************)
(* SpecLifecycle: the life of one converter from ndi_converter_init to     *)
(* ndi_converter_destroy, which is the last call made on it.               *)
(***************************************************************************)
Alive == last_op # "destroy"

LifeUpdate(settings) == Alive /\ Update(settings)

LifeUpdateScaler(frame, create_ok) == Alive /\ UpdateScaler(frame, create_ok)

LifeScaleVideo(frame, create_ok, scale_ok) ==
    Alive /\ ScaleVideo(frame, create_ok, scale_ok)

\* ndi_converter_destroy
DestroyConverter ==
    /\ LET d == ndi_converter_destroy(converter)
       IN  /\ converter' = d.conv
           /\ heap' = heap_apply(heap, d.calls)
    /\ last_op' = "destroy"
    /\ gate_out' = NoGate
    /\ sent' = NoSend
    /\ UNCHANGED <<hist, applied, scale_out, preset_out>>

\* ndi_filter_destroy -> ndi_converter_destroy, the sender left aside
Destroy == Alive /\ DestroyConverter /\ UNCHANGED sender_vars

NextLifecycle ==
    \/ \E settings \in ScalerSettings : LifeUpdate(settings)
    \/ \E frame \in ScalerFrameInputs, create_ok \in BOOLEAN :
           LifeUpdateScaler(frame, create_ok)
    \/ \E frame \in ScalerFrameInputs, create_ok \in BOOLEAN,
          scale_ok \in BOOLEAN :
           LifeScaleVideo(frame, create_ok, scale_ok)
    \/ Destroy

SpecLifecycle == Init /\ [][NextLifecycle]_vars

(***************************************************************************)
(* SpecRace: ndi_filter_update on the thread that changes settings and     *)
(* ndi_filter_raw_video on the thread of the video output.  The converter  *)
(* is written by ndi_converter_update outside of both mutexes and read by  *)
(* ndi_filter_raw_video without one, so a frame can run between any two    *)
(* writes of an update.  The update is followed in its three groups of     *)
(* writes: resolution, crop, frame rate.                                   *)
(***************************************************************************)
\* the fields written by lines 131-159, 161-171 and 174-212
ResolutionFields ==
    {"enable_custom_resolution", "resolution_mode", "custom_width",
     "custom_height", "scale_type", "target_width", "target_height"}

CropFields ==
    {"enable_crop", "crop_left", "crop_top", "crop_width", "crop_height"}

FramerateFields ==
    {"enable_custom_framerate", "framerate_mode", "custom_fps_num",
     "custom_fps_den", "target_fps_num", "target_fps_den",
     "target_frame_interval_ns", "accumulator_ns", "last_frame_timestamp"}

\* the converter after the writes of ndi_converter_update to `fields`
update_fields(conv, settings, fields) ==
    LET u == ndi_converter_update(conv, settings)
    IN  [f \in DOMAIN conv |-> IF f \in fields THEN u[f] ELSE conv[f]]

RaceSettings ==
    {MakeCropSettings(
         MakeSettings(res_on, NDI_RESOLUTION_1080P, <<1920, 1080>>, fps_on,
                      NDI_FRAMERATE_CUSTOM, <<500000000, 1>>),
         crop_on, <<100, 50>>, <<400, 300>>) :
        res_on \in BOOLEAN, fps_on \in BOOLEAN, crop_on \in BOOLEAN}

RaceTsInputs == {Ts(0, k) : k \in 0 .. RaceMaxTs}

\* (known size, source size) of a frame of a 3840x2160 source: rendered at
\* the 1080p target or at the size of the source
RaceFrameInputs ==
    {<<[width |-> 1920, height |-> 1080], [width |-> 3840, height |-> 2160]>>,
     <<[width |-> 3840, height |-> 2160], [width |-> 3840, height |-> 2160]>>}

\* ndi_filter_update up to the end of the resolution writes
RaceUpdateResolution(settings) ==
    /\ applied.stage = "done"
    /\ converter' = update_fields(converter, settings, ResolutionFields)
    /\ applied' = [applied EXCEPT !.settings = settings, !.stage = "crop"]
    /\ last_op' = "update_resolution"
    /\ gate_out' = NoGate
    /\ sent' = NoSend
    /\ UNCHANGED <<hist, scale_out, heap, preset_out,
                   filter, pc, ndiLib>>

\* the crop writes of the update in progress
RaceUpdateCrop ==
    /\ applied.stage = "crop"
    /\ converter' = update_fields(converter, applied.settings, CropFields)
    /\ applied' = [applied EXCEPT !.stage = "framerate"]
    /\ last_op' = "update_crop"
    /\ gate_out' = NoGate
    /\ sent' = NoSend
    /\ UNCHANGED <<hist, scale_out, heap, preset_out,
                   filter, pc, ndiLib>>

\* the frame-rate writes of the update in progress, and its return
RaceUpdateFramerate ==
    /\ applied.stage = "framerate"
    /\ converter' = update_fields(converter, applied.settings,
                                  FramerateFields)
    /\ applied' = [set |-> TRUE, settings |-> applied.settings,
                   completed |-> applied.settings, stage |-> "done"]
    /\ last_op' = "update"
    /\ gate_out' = NoGate
    /\ sent' = NoSend
    /\ hist' = NoHist
    /\ UNCHANGED <<scale_out, heap, preset_out,
                   filter, pc, ndiLib>>

\* a frame on the thread of the video output, at any point of an update
RaceFrame(frame_timestamp, frame) ==
    RawVideoFrame(frame_timestamp, frame[1], frame[2], RaceMaxFrames)

NextRace ==
    \/ \E settings \in RaceSettings : RaceUpdateResolution(settings)
    \/ RaceUpdateCrop
    \/ RaceUpdateFramerate
    \/ \E ts \in RaceTsInputs, frame \in RaceFrameInputs :
           RaceFrame(ts, frame)

SpecRace == Init /\ [][NextRace]_vars

(***************************************************************************)
(* SpecSender: the threads of the host inside one filter, a video filter   *)
(* or an audio-only filter.  Every callback runs one instruction at a      *)
(* time; a lock waits until the mutex is free.  ndi_filter_create returns  *)
(* after its ndi_filter_update, before any other callback begins; no       *)
(* callback begins once the filter is being destroyed, and the filter is   *)
(* freed when no other thread is inside it.                                *)
(***************************************************************************)
SenderSettings ==
    {MakeSettings(FALSE, NDI_RESOLUTION_1080P, <<1920, 1080>>, fps_on,
                  NDI_FRAMERATE_CUSTOM, <<500000000, 1>>) :
        fps_on \in BOOLEAN}

SenderTsInputs == {Ts(0, 1), Ts(0, 5)}

InitSender ==
    /\ \E is_audioonly \in BOOLEAN :
           /\ filter = filter_created(is_audioonly)
           /\ converter = IF is_audioonly THEN converter_zeroed
                          ELSE ndi_converter_init
    /\ last_op = "init"
    /\ gate_out = NoGate
    /\ sent = NoSend
    /\ hist = NoHist
    /\ applied = NoSettings
    /\ scale_out = NoScale
    /\ heap = NoHeap
    /\ preset_out = NoPreset
    /\ pc = [t \in Threads |-> Idle]
    /\ ndiLib = NoSenders

ConverterIdle ==
    UNCHANGED <<converter, last_op, gate_out, sent, hist, applied,
                scale_out, heap, preset_out>>

\* the instruction thread t runs next
Cur(t) == Head(pc[t].todo)

At(t, op) == pc[t].todo # <<>> /\ Cur(t).op = op

Advance(t) == pc' = [pc EXCEPT ![t].todo = Tail(@)]

Call(t, todo) == pc[t] = Idle /\ pc' = [pc EXCEPT ![t].todo = todo]

\* the sender handles of the sends in progress
Sending == {pc[t].arg : t \in Threads} \ {NoArg}

\* ndi_filter_create has returned
Created == applied.set

\* ndi_filter_destroy has not been called
Attached == pc["destroy"] = Idle

\* the host calls ndi_filter_update
FilterUpdate ==
    /\ Attached
    /\ Call("settings", ndi_filter_update(filter))
    /\ UNCHANGED <<filter, ndiLib>>
    /\ ConverterIdle

\* the ndi_converter_update of ndi_filter_update, line 498
ConverterUpdate(settings) ==
    /\ At("settings", "converter_update")
    /\ UpdateConverter(settings)
    /\ Advance("settings")
    /\ UNCHANGED <<filter, ndiLib>>

\* what a read of f->ndi_sender with no mutex held can return while another
\* thread writes it: any value the field has held
SenderReads == {0} \cup 1..ndiLib.made

\* the host calls ndi_filter_tick
FilterTick(valid, seen) ==
    /\ Created /\ Attached /\ ~filter.is_audioonly
    /\ Call("graphics",
            ndi_filter_tick([filter EXCEPT !.ndi_sender = seen], valid))
    /\ UNCHANGED <<filter, ndiLib>>
    /\ ConverterIdle

\* the host calls ndi_filter_render_video on a filter that is not valid
RenderInvalid ==
    /\ Created /\ Attached /\ ~filter.is_audioonly
    /\ Call("graphics", send_video)
    /\ UNCHANGED <<filter, ndiLib>>
    /\ ConverterIdle

\* the video output calls ndi_filter_raw_video: the frame up to its send
\* loop
RawVideoBegin(frame_timestamp) ==
    /\ Created /\ Attached /\ ~filter.is_audioonly
    /\ RawVideoConverter(frame_timestamp, HostSize, HostSize,
                         SenderMaxFrames)
    /\ Call("video", raw_video_sends(Len(sent'.sends)))
    /\ UNCHANGED <<filter, ndiLib>>

\* the host calls ndi_filter_asyncaudio
AsyncAudio ==
    /\ Created /\ Attached
    /\ Call("audio", ndi_filter_asyncaudio)
    /\ UNCHANGED <<filter, ndiLib>>
    /\ ConverterIdle

\* a call of ndi_sender_destroy
SenderDestroy(seen) ==
    /\ Created /\ Attached
    /\ Call("teardown",
            ndi_sender_destroy([filter EXCEPT !.ndi_sender = seen]))
    /\ UNCHANGED <<filter, ndiLib>>
    /\ ConverterIdle

\* the host calls ndi_filter_destroy, or ndi_filter_destroy_audioonly
FilterDestroy ==
    /\ Created
    /\ Call("destroy", ndi_filter_destroy(filter.is_audioonly))
    /\ UNCHANGED <<filter, ndiLib>>
    /\ ConverterIdle

\* pthread_mutex_lock
Lock(t) ==
    /\ At(t, "lock")
    /\ filter[Cur(t).m] \in {"free", "uninitialised"}
    /\ filter' = [filter EXCEPT ![Cur(t).m] = t]
    /\ Advance(t)
    /\ UNCHANGED ndiLib
    /\ ConverterIdle

\* pthread_mutex_unlock
Unlock(t) ==
    /\ At(t, "unlock")
    /\ filter' = [filter EXCEPT ![Cur(t).m] = "free"]
    /\ Advance(t)
    /\ UNCHANGED ndiLib
    /\ ConverterIdle

\* ndiLib->send_destroy(f->ndi_sender)
SendDestroy(t) ==
    /\ At(t, "send_destroy")
    /\ ndiLib' = send_destroy(ndiLib, filter.ndi_sender, Sending)
    /\ Advance(t)
    /\ UNCHANGED filter
    /\ ConverterIdle

\* filter->ndi_sender = ndiLib->send_create(&send_desc)
SendCreate(t, ok) ==
    /\ At(t, "send_create")
    /\ ok => ndiLib.made < MaxSenders
    /\ LET c == send_create(ndiLib, ok)
       IN  /\ ndiLib' = c.lib
           /\ filter' = [filter EXCEPT !.ndi_sender = c.handle]
    /\ Advance(t)
    /\ ConverterIdle

\* filter->ndi_sender = nullptr
Clear(t) ==
    /\ At(t, "clear")
    /\ filter' = [filter EXCEPT !.ndi_sender = 0]
    /\ Advance(t)
    /\ UNCHANGED ndiLib
    /\ ConverterIdle

\* a send begins on the sender read from the filter
SendBegin(t) ==
    /\ At(t, "send")
    /\ ndiLib' = send_send(ndiLib, filter.ndi_sender)
    /\ pc' = [pc EXCEPT ![t] = [todo |-> Tail(pc[t].todo),
                                arg |-> filter.ndi_sender]]
    /\ UNCHANGED filter
    /\ ConverterIdle

\* the send returns
SendEnd(t) ==
    /\ At(t, "sent")
    /\ pc' = [pc EXCEPT ![t] = [todo |-> Tail(pc[t].todo), arg |-> NoArg]]
    /\ UNCHANGED <<filter, ndiLib>>
    /\ ConverterIdle

\* video_output_close returns when the video output has stopped
VideoOutputClose ==
    /\ At("destroy", "video_output_close")
    /\ pc["video"] = Idle
    /\ Advance("destroy")
    /\ UNCHANGED <<filter, ndiLib>>
    /\ ConverterIdle

\* the end of ndi_filter_destroy: ndi_converter_destroy (video filter) and
\* bfree(f)
Free ==
    /\ At("destroy", "free")
    /\ \A t \in Threads \ {"destroy"} : pc[t] = Idle
    /\ IF filter.is_audioonly THEN ConverterIdle ELSE DestroyConverter
    /\ Advance("destroy")
    /\ UNCHANGED <<filter, ndiLib>>

NextSender ==
    \/ FilterUpdate
    \/ \E settings \in SenderSettings : ConverterUpdate(settings)
    \/ \E valid \in BOOLEAN, seen \in SenderReads : FilterTick(valid, seen)
    \/ RenderInvalid
    \/ \E ts \in SenderTsInputs : RawVideoBegin(ts)
    \/ AsyncAudio
    \/ \E seen \in SenderReads : SenderDestroy(seen)
    \/ FilterDestroy
    \/ \E t \in Threads : Lock(t)
    \/ \E t \in Threads : Unlock(t)
    \/ \E t \in Threads : SendDestroy(t)
    \/ \E t \in Threads, ok \in BOOLEAN : SendCreate(t, ok)
    \/ \E t \in Threads : Clear(t)
    \/ \E t \in Threads : SendBegin(t)
    \/ \E t \in Threads : SendEnd(t)
    \/ VideoOutputClose
    \/ Free

SpecSender == InitSender /\ [][NextSender]_vars

(***************************************************************************)
(* SpecSend: the frames ndi_filter_raw_video passes to the sender, with    *)
(* frame-rate conversion off, on with an interval of 2 ns, and on without  *)
(* a rate (Auto), with and without a crop rectangle.                       *)
(***************************************************************************)
SendSettings ==
    {MakeCropSettings(
         MakeSettings(FALSE, NDI_RESOLUTION_1080P, <<1920, 1080>>, fps_on,
                      mode, <<500000000, 1>>),
         crop_on, <<100, 50>>, <<400, 300>>) :
        fps_on \in BOOLEAN,
        mode \in {NDI_FRAMERATE_AUTO, NDI_FRAMERATE_CUSTOM},
        crop_on \in BOOLEAN}

SendTsInputs == {Ts(0, k) : k \in 0 .. SendMaxTs}

SendUpdate(settings) == Update(settings)

SendFrame(frame_timestamp) ==
    RawVideoFrame(frame_timestamp, HostSize, HostSize, SendMaxFrames)

NextSend ==
    \/ \E settings \in SendSettings : SendUpdate(settings)
    \/ \E ts \in SendTsInputs : SendFrame(ts)

SpecSend == Init /\ [][NextSend]_vars

(***************************************************************************)
(* SpecPresets: the two preset tables, looked up for every mode value of   *)
(* the enumerations and for values on both sides of them.                  *)
(***************************************************************************)
PresetModeInputs == (0 - MaxMode) .. MaxMode

\* a call of ndi_converter_get_preset_resolution
PresetResolution(mode) ==
    /\ preset_out' = [op |-> "get_preset_resolution", mode |-> mode,
                      out |-> ndi_converter_get_preset_resolution(mode)]
    /\ last_op' = "get_preset_resolution"
    /\ UNCHANGED <<converter, gate_out, sent, hist, applied, scale_out,
                   heap, filter, pc, ndiLib>>

\* a call of ndi_converter_get_preset_framerate
PresetFramerate(mode) ==
    /\ preset_out' = [op |-> "get_preset_framerate", mode |-> mode,
                      out |-> ndi_converter_get_preset_framerate(mode)]
    /\ last_op' = "get_preset_framerate"
    /\ UNCHANGED <<converter, gate_out, sent, hist, applied, scale_out,
                   heap, filter, pc, ndiLib>>

NextPresets ==
    \/ \E mode \in PresetModeInputs : PresetResolution(mode)
    \/ \E mode \in PresetModeInputs : PresetFramerate(mode)

SpecPresets == Init /\ [][NextPresets]_vars

(***************************************************************************)
(* Properties.                                                             *)
(***************************************************************************)
\* the last operation was a call of the gate, direct or from the callback
GateRan == gate_out.called

\* the gate paces: frame-rate conversion enabled with a positive interval
Pacing == converter.enable_custom_framerate
          /\ converter.target_frame_interval_ns > 0

\* C1: when frame-rate conversion is disabled, every direct call of the gate
\* reports an emission count of exactly 1, whatever the timestamp.
C1_DisabledGateCountsOne ==
    (last_op = "gate" /\ ~converter.enable_custom_framerate)
        => gate_out.frames_to_send = 1

\* C2: with frame-rate conversion enabled and a target interval of 0, the
\* callback ndi_filter_raw_video sends every frame exactly once.
C2_ZeroIntervalSendsOnce ==
    (last_op = "raw_video" /\ converter.enable_custom_framerate
     /\ converter.target_frame_interval_ns = 0)
        => sent.count = 1

\* C3 as stated: after 1001 frames 33333333 ns apart under the 29.97 preset
\* the emission counts sum to 1000.
C3_NtscTotalIs1000 ==
    hist.n = NtscScenario.frames => hist.total = 1000

\* C3 as amended: after 1001 frames 33333333 ns apart under the 29.97 preset,
\* the first with a non-zero timestamp, the emission counts sum to 999.
C3_NtscTotalIs999 ==
    (hist.n = NtscScenario.frames /\ TsPositive(hist.first))
        => hist.total = 999

C3_Witness ==
    /\ hist.n = NtscScenario.frames
    /\ TsPositive(hist.first)
    /\ converter.target_fps_num = 30000
    /\ converter.target_fps_den = 1001
    /\ hist.spacing = [kind |-> "fixed", S |-> NtscScenario.spacing]

\* the constant spacing S of the frames since the reset (0 for one frame)
FixedSpacing == hist.n = 1 \/ (hist.spacing.kind = "fixed" /\ hist.spacing.S >= 0)

\* C4 as stated: N frames at a fixed spacing S with interval T: the total
\* emitted after the N-th call differs from N*S/T by at most 1, that is
\* |T * total - N * S| <= T.
C4_TotalWithinOneOfNSOverT ==
    (hist.n >= 2 /\ FixedSpacing)
        => LET T == converter.target_frame_interval_ns
               e == T * hist.total - hist.n * hist.spacing.S
           IN  -T <= e /\ e <= T

\* C4 as amended: N frames at a fixed spacing S with interval T, the first
\* with a non-zero timestamp: the total emitted after the N-th call is
\* floor((N-1)*S/T), so it differs from (N-1)*S/T by less than 1.
C4_TotalIsFloorOfElapsed ==
    (hist.n >= 1 /\ FixedSpacing /\ TsPositive(hist.first))
        => LET T == converter.target_frame_interval_ns
               elapsed == (hist.n - 1) * hist.spacing.S
           IN  T * hist.total <= elapsed /\ elapsed < T * hist.total + T

\* up-pacing: four frames 3 ns apart with an interval of 2 ns
C4_Witness ==
    /\ hist.n >= 4
    /\ hist.spacing = [kind |-> "fixed", S |-> 3]
    /\ converter.target_frame_interval_ns = 2
    /\ TsPositive(hist.first)
    /\ hist.total = 4

\* C5 as stated: with pacing active and non-decreasing timestamps since the
\* reset, T * (total emitted) + accumulator_ns = latest - first timestamp.
C5_NoTimeDiscarded ==
    (hist.n >= 1 /\ hist.mono)
        => converter.target_frame_interval_ns * hist.total
             + converter.accumulator_ns
           = TsDiff(converter.last_frame_timestamp, hist.first)

\* C5 as amended: the same, for non-decreasing timestamps the first of which
\* is non-zero.
C5_NoTimeDiscardedNonZero ==
    (hist.n >= 1 /\ hist.mono /\ TsPositive(hist.first))
        => converter.target_frame_interval_ns * hist.total
             + converter.accumulator_ns
           = TsDiff(converter.last_frame_timestamp, hist.first)

\* irregular frames, some emitted, a residual kept
C5_Witness ==
    /\ hist.n >= 3
    /\ hist.mono
    /\ TsPositive(hist.first)
    /\ hist.spacing.kind = "varied"
    /\ hist.total >= 2
    /\ converter.accumulator_ns > 0

\* C6: the first gate call after a pacing reset (an update with frame-rate
\* conversion enabled and a non-zero interval) returns count 0, whatever the
\* timestamp.
C6_FirstCallAfterResetIsZero ==
    (GateRan /\ hist.n = 1)
        => (gate_out.frames_to_send = 0 /\ ~gate_out.should_send)

C6_Witness ==
    /\ GateRan
    /\ hist.n = 1
    /\ Pacing
    /\ TsDiff(converter.last_frame_timestamp, Ts(0, 0))
         >= converter.target_frame_interval_ns

\* the step changes a frame-rate setting of the converter
FpsSettingChanges ==
    \/ converter'.enable_custom_framerate # converter.enable_custom_framerate
    \/ converter'.framerate_mode # converter.framerate_mode
    \/ converter'.custom_fps_num # converter.custom_fps_num
    \/ converter'.custom_fps_den # converter.custom_fps_den

\* C7: every update that changes a frame-rate setting leaves
\* accumulator_ns = 0 and last_frame_timestamp = 0, also when it disables
\* frame-rate conversion.
C7_FpsChangeResetsPacing ==
    [][(last_op' = "update" /\ FpsSettingChanges)
         => (converter'.accumulator_ns = 0
             /\ converter'.last_frame_timestamp = Ts(0, 0))]_vars

\* both target dimensions are non-zero
HasTarget == U32Lt(0, converter.target_width)
             /\ U32Lt(0, converter.target_height)

NoTarget == converter.target_width = 0 /\ converter.target_height = 0

\* C8 as stated: after every update both target dimensions are positive iff
\* custom resolution is enabled and the mode is one of Auto, 720p, 1080p,
\* 1440p, 4K, Custom; otherwise both are 0.
C8_TargetIffEnabledAndInEnum ==
    last_op = "update"
        => /\ HasTarget <=>
                (converter.enable_custom_resolution
                 /\ converter.resolution_mode
                      \in NDI_RESOLUTION_AUTO .. NDI_RESOLUTION_CUSTOM)
           /\ HasTarget \/ NoTarget

\* C8 as amended: after every update both target dimensions are positive iff
\* custom resolution is enabled and the mode is one of 720p, 1080p, 1440p,
\* 4K, Custom; otherwise (disabled, Auto, out of range) both are 0.
C8_TargetIffEnabledAndSized ==
    last_op = "update"
        => /\ HasTarget <=>
                (converter.enable_custom_resolution
                 /\ converter.resolution_mode
                      \in NDI_RESOLUTION_720P .. NDI_RESOLUTION_CUSTOM)
           /\ HasTarget \/ NoTarget

\* the custom mode with an out-of-range width clamped to the maximum
C8_Witness ==
    /\ last_op = "update"
    /\ converter.enable_custom_resolution
    /\ converter.resolution_mode = NDI_RESOLUTION_CUSTOM
    /\ converter.target_width = 7680
    /\ converter.target_height = 4320

\* C9: after every update target_frame_interval_ns > 0 iff frame-rate
\* conversion is enabled and target_fps_num > 0 and target_fps_den > 0.
C9_IntervalIffEnabledAndRate ==
    last_op = "update"
        => (converter.target_frame_interval_ns > 0
            <=> (converter.enable_custom_framerate
                 /\ U32Lt(0, converter.target_fps_num)
                 /\ U32Lt(0, converter.target_fps_den)))

\* C10 as stated: after every update target_frame_interval_ns is non-zero
\* iff enable_custom_framerate is true.
C10_IntervalIffEnabled ==
    last_op = "update"
        => (converter.target_frame_interval_ns # 0
            <=> converter.enable_custom_framerate)

\* num <= 10^9 * den for a uint32_t num and 0 < den < 2^31
RateAtMostOnePerNs(num, den) ==
    CASE num >= 0 ->
            \/ num \div NsPerSec < den
            \/ (num \div NsPerSec = den /\ num % NsPerSec = 0)
      [] num < 0 /\ den <= 2 -> FALSE
      [] num < 0 /\ den = 3 -> num <= -1294967296
      [] num < 0 /\ den = 4 -> num <= -294967296
      [] num < 0 /\ den >= 5 -> TRUE

\* C10 as amended: after every update target_frame_interval_ns is non-zero
\* iff enable_custom_framerate is true and the mode is either one of the ten
\* presets or Custom with custom_fps_num <= 10^9 * custom_fps_den; it is 0
\* when disabled and when enabled with Auto or an out-of-range mode.
C10_IntervalIffEnabledAndResolvable ==
    last_op = "update"
        => (converter.target_frame_interval_ns # 0
            <=> /\ converter.enable_custom_framerate
                /\ \/ converter.framerate_mode
                        \in NDI_FRAMERATE_5 .. NDI_FRAMERATE_5994
                   \/ /\ converter.framerate_mode = NDI_FRAMERATE_CUSTOM
                      /\ RateAtMostOnePerNs(converter.custom_fps_num,
                                            converter.custom_fps_den))

\* enabled with the Auto mode: no interval
C10_Witness ==
    /\ last_op = "update"
    /\ converter.enable_custom_framerate
    /\ converter.framerate_mode = NDI_FRAMERATE_AUTO
    /\ converter.target_frame_interval_ns = 0

\* the last snapshot applied by ndi_converter_update
Applied == applied.settings

\* C11: after ndi_converter_update on any snapshot, custom_width is in
\* [128, 7680], custom_height in [72, 4320], custom_fps_num and
\* custom_fps_den are at least 1 (unsigned), crop_left and crop_top are at
\* least 0, and a crop_width or crop_height of 0 is stored as 0.
C11_UpdateClampsEveryField ==
    applied.set =>
        /\ converter.custom_width \in 128 .. 7680
        /\ converter.custom_height \in 72 .. 4320
        /\ ~U32Lt(converter.custom_fps_num, 1)
        /\ ~U32Lt(converter.custom_fps_den, 1)
        /\ converter.crop_left >= 0
        /\ converter.crop_top >= 0
        /\ (Applied.crop_width = 0 => converter.crop_width = 0)
        /\ (Applied.crop_height = 0 => converter.crop_height = 0)

\* a snapshot with an oversized width, a zero rate, a negative crop
\* position and a zero crop width was applied
C11_Witness ==
    /\ applied.set
    /\ Applied.custom_width = 7681 /\ converter.custom_width = 7680
    /\ Applied.custom_fps_num = 0 /\ converter.custom_fps_num = 1
    /\ Applied.crop_left = -5 /\ converter.crop_left = 0
    /\ Applied.crop_width = 0 /\ Applied.crop_height = 300
    /\ converter.crop_width = 0 /\ converter.crop_height = 300

\* the next operation is a direct call of ndi_converter_update_scaler
UpdateScalerStep == last_op' = "update_scaler"

\* resolution conversion is disabled or a target dimension is 0
ConversionOff ==
    \/ ~converter.enable_custom_resolution
    \/ converter.target_width = 0
    \/ converter.target_height = 0

\* target_width * target_height * 4
RequiredSize == converter.target_width * converter.target_height * 4

\* C12 as stated: with resolution conversion disabled or a target dimension
\* of 0, ndi_converter_update_scaler changes nothing and returns true.
C12_DisabledIsNoOpReturningTrue ==
    [][(UpdateScalerStep /\ ConversionOff)
          => (converter' = converter /\ scale_out'.ret)]_vars

\* C12: with resolution conversion disabled or a target dimension of 0,
\* ndi_converter_update_scaler changes nothing and returns false.
C12_DisabledIsNoOpReturningFalse ==
    [][(UpdateScalerStep /\ ConversionOff)
          => (converter' = converter /\ ~scale_out'.ret)]_vars

\* ndi_converter_update_scaler ran on a converter that holds a scaler and
\* whose resolution conversion is enabled without a target
C12_Witness ==
    /\ scale_out.op = "update_scaler"
    /\ converter.enable_custom_resolution
    /\ converter.target_width = 0
    /\ converter.scaler.live

\* C13: whenever ndi_converter_update_scaler returned true, the live scaler was
\* built for the source width, height and format of the call and for the
\* current target width and height.
C13_ScalerMatchesSourceAndTarget ==
    (scale_out.op = "update_scaler" /\ scale_out.ret) =>
        /\ converter.scaler.live
        /\ converter.scaler.src_width = scale_out.source[1][1]
        /\ converter.scaler.src_height = scale_out.source[1][2]
        /\ converter.scaler.src_format = scale_out.source[2]
        /\ converter.scaler.dst_width = converter.target_width
        /\ converter.scaler.dst_height = converter.target_height

\* C14: whenever ndi_converter_scale_video ran video_scaler_scale on the
\* scaled buffer, scaled_buffer_size is at least
\* target_width * target_height * 4.
C14_BufferCoversTarget ==
    (scale_out.op = "scale_video" /\ scale_out.scaled # "none") =>
        converter.scaled_buffer_size >= RequiredSize

\* C15: the second of two consecutive ndi_converter_update_scaler calls
\* that both return true, with no settings change in between, leaves the
\* buffer pointer and its size unchanged.
C15_SecondCallKeepsBuffer ==
    [][(scale_out.op = "update_scaler" /\ scale_out.ret
        /\ UpdateScalerStep /\ scale_out'.ret)
          => /\ converter'.scaled_buffer = converter.scaled_buffer
             /\ converter'.scaled_buffer_size
                    = converter.scaled_buffer_size]_vars

\* C16: a resampler call in which video_scaler_create fails returns false,
\* leaves scaler null and the recorded source geometry as it was; the
\* resampler call right after it calls video_scaler_create again.
C16_CreateFailureKeepsGeometryAndRetries ==
    [][/\ scale_out'.create = "failed" =>
            /\ ~scale_out'.ret
            /\ converter'.scaler = NoScaler
            /\ converter'.source_width = converter.source_width
            /\ converter'.source_height = converter.source_height
            /\ converter'.source_format = converter.source_format
       /\ (scale_out.create = "failed" /\ scale_out'.op # "none") =>
            scale_out'.create # "none"]_vars

\* video_scaler_create failed on a frame whose width differs from the one
\* recorded by an earlier, successful call
C16_Witness ==
    /\ scale_out.create = "failed"
    /\ converter.source_width # 0
    /\ converter.source_width # scale_out.source[1][1]
    /\ converter.scaler = NoScaler

\* C17: ndi_converter_scale_video returns false without writing
\* *frame_out and *linesize_out when there is no scaler or buffer or
\* video_scaler_scale fails; when it returns true, *frame_out is
\* scaled_buffer and *linesize_out is target_width * 4.
C17_ScaleVideoOutputs ==
    scale_out.op = "scale_video" =>
        /\ scale_out.ret =>
              /\ scale_out.written
              /\ scale_out.frame_out = converter.scaled_buffer
              /\ scale_out.frame_out # NoBuffer
              /\ scale_out.linesize_out = converter.target_width * 4
        /\ ~scale_out.ret => ~scale_out.written
        /\ (~converter.scaler.live \/ converter.scaled_buffer = NoBuffer
            \/ scale_out.scaled = "failed") => ~scale_out.ret

\* ndi_converter_scale_video returned true under a 1920-wide target
C17_Witness ==
    /\ scale_out.op = "scale_video"
    /\ scale_out.ret
    /\ scale_out.written
    /\ scale_out.linesize_out = 7680

\* the callback sent the frame
FrameSent == last_op = "raw_video" /\ sent.count > 0

\* resolution conversion is active and the source size is known
CropIsMapped ==
    /\ converter.enable_custom_resolution
    /\ U32Lt(0, converter.target_width) /\ U32Lt(0, converter.target_height)
    /\ U32Lt(0, sent.source.width) /\ U32Lt(0, sent.source.height)

\* the whole frame
FullFrame ==
    /\ sent.left = 0 /\ sent.top = 0
    /\ sent.xres = sent.known.width /\ sent.yres = sent.known.height

\* C18: for known sizes of at least 1x1 the region sent lies inside the
\* frame: 0 <= left < knownWidth, 0 <= top < knownHeight,
\* left + width <= knownWidth and top + height <= knownHeight.  (An extent
\* of 2^31 or more is a negative pattern.)
C18_RegionInsideFrame ==
    (FrameSent /\ sent.known.width >= 1 /\ sent.known.height >= 1) =>
        /\ 0 <= sent.left /\ sent.left < sent.known.width
        /\ 0 <= sent.top /\ sent.top < sent.known.height
        /\ sent.xres >= 0 /\ sent.xres <= sent.known.width - sent.left
        /\ sent.yres >= 0 /\ sent.yres <= sent.known.height - sent.top

\* C19: with crop disabled, and with crop enabled and left, top, width and
\* height all 0, the region sent is the whole frame, with or without
\* resolution conversion.
C19_NoCropIsFullFrame ==
    (FrameSent
     /\ (~converter.enable_crop
         \/ (converter.crop_left = 0 /\ converter.crop_top = 0
             /\ converter.crop_width = 0 /\ converter.crop_height = 0)))
        => FullFrame

\* a frame was sent whole with crop disabled over stored crop values, from
\* a mapped configuration
C19_Witness ==
    /\ FrameSent /\ FullFrame /\ CropIsMapped
    /\ ~converter.enable_crop
    /\ converter.crop_left = 100 /\ converter.crop_width = 400

\* v * known / source, truncated
crop_mapped_exactly(v, known, source) == (v * known) \div source

\* C20: with resolution conversion active and a known source size, the
\* region sent is the one obtained from left and width times
\* knownWidth / sourceWidth and top and height times
\* knownHeight / sourceHeight, truncated, then zero-defaulted and clamped.
C20_CropMappedByExactRatio ==
    (FrameSent /\ CropIsMapped /\ converter.enable_crop) =>
        LET k == sent.known
            src == sent.source
            r == raw_video_region_of(converter, k,
                     [left |-> crop_mapped_exactly(converter.crop_left,
                                                   k.width, src.width),
                      top |-> crop_mapped_exactly(converter.crop_top,
                                                  k.height, src.height),
                      width |-> crop_mapped_exactly(converter.crop_width,
                                                    k.width, src.width),
                      height |-> crop_mapped_exactly(converter.crop_height,
                                                     k.height, src.height)])
        IN  /\ sent.left = r.left /\ sent.top = r.top
            /\ sent.xres = r.xres /\ sent.yres = r.yres

\* the example of C20: 4K to 1080p, crop (100, 50, 400, 300)
CropExampleMapsToHalf ==
    (FrameSent /\ CropIsMapped /\ converter.enable_crop
     /\ sent.known.width = 1920 /\ sent.source.width = 3840
     /\ converter.crop_left = 100 /\ converter.crop_width = 400)
        => (sent.left = 50 /\ sent.top = 25
            /\ sent.xres = 200 /\ sent.yres = 150)

\* the crop coordinates of scaled space before the zero default and the
\* clamps, as the frame that was sent computed them
SentCrop == raw_video_crop_normalize(converter, sent.known, sent.source)

\* C21: with crop enabled, a crop left (top) greater than or equal to
\* knownWidth (knownHeight) is clamped to knownWidth-1 (knownHeight-1), never
\* reset to 0, and the width (height) is then recomputed to 1; the crop
\* rectangle never has zero width or zero height.
C21_ClampKeepsOnePixel ==
    (FrameSent /\ converter.enable_crop
     /\ sent.known.width >= 2 /\ sent.known.height >= 2) =>
        /\ SentCrop.left >= sent.known.width =>
               (sent.left = sent.known.width - 1 /\ sent.xres = 1)
        /\ SentCrop.top >= sent.known.height =>
               (sent.top = sent.known.height - 1 /\ sent.yres = 1)
        /\ sent.xres # 0 /\ sent.yres # 0

\* C22: when crop is enabled with custom resolution active but the source
\* dimensions are unknown (reported as 0), the frame is sent as the full
\* frame (0, 0, knownWidth, knownHeight) whatever the stored crop values.
C22_UnknownSourceIsFullFrame ==
    (FrameSent /\ converter.enable_crop
     /\ converter.enable_custom_resolution
     /\ U32Lt(0, converter.target_width) /\ U32Lt(0, converter.target_height)
     /\ (sent.source.width = 0 \/ sent.source.height = 0))
        => FullFrame

\* C25: the preset resolution lookup gives 1280x720 for 720p, 1920x1080 for
\* 1080p, 2560x1440 for 1440p, 3840x2160 for 4K, and 0x0 for every other
\* mode (Auto, Custom, values outside the enumeration).
C25_PresetResolutionTable ==
    preset_out.op = "get_preset_resolution" =>
        LET m == preset_out.mode
            w == preset_out.out.width
            h == preset_out.out.height
        IN  /\ m = NDI_RESOLUTION_720P => (w = 1280 /\ h = 720)
            /\ m = NDI_RESOLUTION_1080P => (w = 1920 /\ h = 1080)
            /\ m = NDI_RESOLUTION_1440P => (w = 2560 /\ h = 1440)
            /\ m = NDI_RESOLUTION_4K => (w = 3840 /\ h = 2160)
            /\ m \notin {NDI_RESOLUTION_720P, NDI_RESOLUTION_1080P,
                         NDI_RESOLUTION_1440P, NDI_RESOLUTION_4K}
                   => (w = 0 /\ h = 0)

\* the custom mode was looked up and gave no size
C25_Witness ==
    /\ preset_out.op = "get_preset_resolution"
    /\ preset_out.mode = NDI_RESOLUTION_CUSTOM
    /\ preset_out.out = [width |-> 0, height |-> 0]

\* the modes of the frame-rate table that name a rate
FrameratePresets == NDI_FRAMERATE_5 .. NDI_FRAMERATE_5994

RateResolved ==
    /\ applied.set /\ converter.enable_custom_framerate
    /\ converter.target_fps_num > 0 /\ converter.target_fps_den > 0

\* floor(10^9 * den / num) and the remainder of that division, without a
\* product over 2^31
IntervalFloor(num, den) ==
    den * (NsPerSec \div num) + (den * (NsPerSec % num)) \div num

IntervalRemainder(num, den) == (den * (NsPerSec % num)) % num

\* 10^9 * den / num rounded to the nearest integer
IntervalNearest(num, den) ==
    IntervalFloor(num, den)
    + (IF 2 * IntervalRemainder(num, den) >= num THEN 1 ELSE 0)

\* C27 as stated: the resolved target interval equals 10^9 * den / num
\* rounded to the nearest nanosecond whenever num > 0 and den > 0; 30000/1001
\* resolves to 33366667 ns.
C27_IntervalRoundedToNearest ==
    RateResolved =>
        /\ converter.target_frame_interval_ns
               = IntervalNearest(converter.target_fps_num,
                                 converter.target_fps_den)
        /\ (converter.target_fps_num = 30000
            /\ converter.target_fps_den = 1001)
               => converter.target_frame_interval_ns = 33366667

\* C27 as amended: the resolved target interval equals 10^9 * den / num
\* truncated to whole nanoseconds whenever num > 0 and den > 0; 30000/1001
\* resolves to 33366666 ns.
C27_IntervalTruncated ==
    RateResolved =>
        /\ converter.target_frame_interval_ns
               = IntervalFloor(converter.target_fps_num,
                               converter.target_fps_den)
        /\ (converter.target_fps_num = 30000
            /\ converter.target_fps_den = 1001)
               => converter.target_frame_interval_ns = 33366666

\* 30000/1001 was resolved, to 33366666 ns
C27_Witness ==
    /\ RateResolved
    /\ converter.target_fps_num = 30000 /\ converter.target_fps_den = 1001
    /\ converter.target_frame_interval_ns = 33366666

\* a step that is a call of the gate with pacing on
PacedGateStep == last_op' = "gate" /\ gate_out'.called /\ Pacing

\* the time the call adds to the accumulator: hist'.last is the timestamp
\* of the call
StepDelta ==
    IF TsPositive(converter.last_frame_timestamp)
    THEN TsDiff(hist'.last, converter.last_frame_timestamp)
    ELSE 0

\* C28: with pacing enabled, target interval T > 0 and non-decreasing
\* timestamps, each gate call is an exact division with remainder: with
\* a = accumulator before the call plus delta, the count returned is
\* floor(a / T), the accumulator afterwards is a - count * T and lies in
\* [0, T), and last_frame_timestamp is the timestamp of the call.
C28_GateDividesWithRemainder ==
    [][(PacedGateStep /\ hist'.mono) =>
          LET T == converter.target_frame_interval_ns
              a == converter.accumulator_ns + StepDelta
              count == gate_out'.frames_to_send
          IN  /\ count = a \div T
              /\ converter'.accumulator_ns = a - count * T
              /\ converter'.accumulator_ns >= 0
              /\ converter'.accumulator_ns < T
              /\ converter'.last_frame_timestamp = hist'.last]_vars

\* a paced call returned two frames and kept a remainder
C28_Witness ==
    /\ last_op = "gate" /\ gate_out.called /\ Pacing /\ hist.mono
    /\ gate_out.frames_to_send = 2
    /\ converter.accumulator_ns = 1
    /\ converter.last_frame_timestamp = hist.last

\* C29: for every incoming frame ndi_filter_raw_video calls the sender as
\* many times as the gate's emission count for that frame when frame-rate
\* conversion is enabled (no send when the count is 0) and once when it is
\* disabled, and every send for one frame carries the same width, height,
\* data pointer and line stride.
C29_SendsMatchGateCount ==
    last_op = "raw_video" =>
        /\ Len(sent.sends)
               = (IF converter.enable_custom_framerate
                  THEN gate_out.frames_to_send ELSE 1)
        /\ converter.enable_custom_framerate => gate_out.called
        /\ \A i, j \in DOMAIN sent.sends : sent.sends[i] = sent.sends[j]

\* one frame was sent twice, cropped
C29_Witness ==
    /\ last_op = "raw_video" /\ converter.enable_custom_framerate
    /\ gate_out.frames_to_send = 2 /\ Len(sent.sends) = 2
    /\ sent.sends[1].xres = 400 /\ sent.sends[2].p_data = 50 * 7680 + 400

\* C30: ndi_converter_update_scaler returns true if and only if scaling is
\* needed and ready: custom resolution is enabled, both target dimensions
\* are non-zero, and on return a scaler exists whose recorded source width,
\* height and format equal the arguments; in every other case it returns
\* false.
C30_TrueIffNeededAndReady ==
    (last_op = "update_scaler") =>
        (scale_out.ret
            <=> /\ converter.enable_custom_resolution
                /\ converter.target_width # 0 /\ converter.target_height # 0
                /\ converter.scaler.live
                /\ converter.source_width = scale_out.source[1][1]
                /\ converter.source_height = scale_out.source[1][2]
                /\ converter.source_format = scale_out.source[2])

\* a call returned true on a scaler made for an earlier frame of the same
\* geometry
C30_Witness ==
    /\ last_op = "update_scaler" /\ scale_out.ret /\ scale_out.reused
    /\ converter.scaler.live
    /\ converter.source_format = scale_out.source[2]

\* C24: across any sequence of init, update, update_scaler, scale_video and
\* a final ndi_converter_destroy, every scaler that was created is destroyed
\* exactly once and every scaled buffer that was allocated is freed exactly
\* once (no leak, no double free, no use of a freed handle), and after
\* destroy scaler == null, scaled_buffer == null and scaled_buffer_size == 0.
C24_ResourcesReleasedOnce ==
    /\ heap.fault = "none"
    /\ heap.scalers = (IF converter.scaler.live THEN 1 ELSE 0)
    /\ heap.buffers = (IF converter.scaled_buffer # NoBuffer THEN 1 ELSE 0)
    /\ last_op = "destroy" =>
           /\ heap.scalers = 0 /\ heap.buffers = 0
           /\ converter.scaler = NoScaler
           /\ converter.scaled_buffer = NoBuffer
           /\ converter.scaled_buffer_size = 0

\* the converter was destroyed right after a call that created a scaler and
\* scaled a frame into the buffer
C24_Witness ==
    /\ last_op = "destroy"
    /\ scale_out.op = "scale_video" /\ scale_out.create = "ok"
    /\ scale_out.ret /\ scale_out.frame_out # NoBuffer
    /\ heap = NoHeap
    /\ converter.scaler = NoScaler /\ converter.scaled_buffer = NoBuffer

\* the configuration a frame reads: every field of the converter that
\* ndi_converter_update computes from the snapshot alone
ConfigFields == ResolutionFields \cup CropFields
                \cup (FramerateFields
                      \ {"accumulator_ns", "last_frame_timestamp"})

ConfigOf(conv) == [f \in ConfigFields |-> conv[f]]

\* the configuration of the last update that has returned, that of
\* ndi_converter_init before the first
CompletedConfig ==
    IF applied.set
    THEN ConfigOf(ndi_converter_update(converter, applied.completed))
    ELSE ConfigOf(ndi_converter_init)

\* C23: a frame tick never runs concurrently with a settings update on the
\* same converter, so a frame never observes a torn configuration: every
\* converter field it reads comes from a single completed update.
C23_FrameReadsOneCompletedUpdate ==
    last_op = "raw_video" =>
        /\ applied.stage = "done"
        /\ ConfigOf(converter) = CompletedConfig

\* C31: an update whose settings leave the frame-rate configuration
\* unchanged (only name, resolution or crop keys differ) leaves the pacing
\* state accumulator_ns and last_frame_timestamp unchanged, so a pacing
\* sequence in progress is not restarted.
C31_UnchangedFpsKeepsPacing ==
    [][(last_op' = "update" /\ applied.set /\ ~FpsSettingChanges)
         => (converter'.accumulator_ns = converter.accumulator_ns
             /\ converter'.last_frame_timestamp
                    = converter.last_frame_timestamp)]_vars


\* thread t waits for a mutex another thread holds
Blocked(t) ==
    At(t, "lock") /\ filter[Cur(t).m] \notin {"free", "uninitialised"}

\* thread t holds mutex m
Holds(t, m) == filter[m] = t

\* thread t is inside a callback at an instruction that runs without
\* waiting for another thread
CanStep(t) ==
    /\ pc[t].todo # <<>>
    /\ ~Blocked(t)
    /\ Cur(t).op \notin {"video_output_close", "free", "gone"}

\* the holder t of a mutex can run, or waits for the other mutex whose
\* holder can run
WillRelease(t) ==
    \/ CanStep(t)
    \/ Blocked(t) /\ CanStep(filter[Cur(t).m])

\* C32: the two sender mutexes are taken video first, audio second, and
\* released audio first by every path that holds both; the frame and audio
\* callbacks hold one at a time; a thread that waits for a mutex never waits
\* in a cycle, so no interleaving of the update, tick, frame, audio
\* and destroy threads deadlocks; an audio-only filter never touches the
\* video mutex it did not initialise.
C32_LockOrderNoDeadlock ==
    /\ \A t \in Threads :
           /\ (At(t, "lock") /\ Cur(t).m = VideoMutex)
                  => ~Holds(t, AudioMutex)
           /\ (At(t, "unlock") /\ Cur(t).m = VideoMutex)
                  => ~Holds(t, AudioMutex)
           /\ At(t, "unlock") => Holds(t, Cur(t).m)
           /\ Blocked(t) => WillRelease(filter[Cur(t).m])
    /\ \A t \in {"video", "audio"} :
           ~(Holds(t, VideoMutex) /\ Holds(t, AudioMutex))
    /\ filter.is_audioonly =>
           /\ filter[VideoMutex] = "uninitialised"
           /\ \A t \in Threads :
                  \A i \in 1..Len(pc[t].todo) :
                      pc[t].todo[i].m # VideoMutex

\* a thread holds both mutexes while one thread waits for the video mutex
\* and another for the audio mutex
C32_Witness ==
    \E t, u, v \in Threads :
        /\ Holds(t, VideoMutex) /\ Holds(t, AudioMutex)
        /\ Blocked(u) /\ Cur(u).m = VideoMutex
        /\ Blocked(v) /\ Cur(v).m = AudioMutex

\* C33: for a video filter whose destruction has not begun, no send
\* overlaps the destruction or replacement of the sender it uses: every send
\* in progress is on a null handle or on the live sender, the library has
\* seen no send or destroy on a destroyed sender and no destroy during a
\* send, and at most one sender is live.
C33_SendNeverOverlapsDestroy ==
    (~filter.is_audioonly /\ Attached) =>
        /\ ndiLib.fault = "none"
        /\ Cardinality(ndiLib.live) <= 1
        /\ ndiLib.live \subseteq {filter.ndi_sender}
        /\ \A t \in Threads :
               pc[t].arg # NoArg =>
                   /\ pc[t].arg \in {0} \cup ndiLib.live
                   /\ \A u \in Threads \ {t} :
                          ~(At(u, "send_create") \/ At(u, "clear"))

\* a send on the second sender is in progress while a thread that will
\* destroy that sender waits for the mutex the send holds
C33_Witness ==
    /\ ~filter.is_audioonly /\ Attached
    /\ ndiLib.made = 2
    /\ \E t, u \in Threads :
           /\ pc[t].arg = 2 /\ 2 \in ndiLib.live
           /\ Blocked(u) /\ filter[Cur(u).m] = t
           /\ \E i \in 1..Len(pc[u].todo) : pc[u].todo[i].op = "send_destroy"

====
